---- MODULE Spec2Model ----
(***************************************************************************)
(* Request admission and scheduling pipeline of the Groq client:           *)
(*   core/rate_limit_handler.py  RateLimitHandler  (quota tracker)         *)
(*   core/queue_manager.py       QueueManager      (priority queue)        *)
(*   core/model_registry.py      ModelRegistry     (model catalog)         *)
(*   handlers/text_generation.py TextGenerationHandler (generate)          *)
(*   handlers/speech_to_text.py  SpeechToTextHandler   (transcribe)        *)
(*   client/groq_client.py       GroqClient        (enqueue_request)       *)
(*                                                                         *)
(* Time.  time.time() is not kept as an absolute clock.  A reset deadline  *)
(* x_reset_time of the source is kept as the pair                          *)
(*   x_reset_armed  (source: x_reset_time > 0)                             *)
(*   x_reset_in     (source: max(0, x_reset_time - time.time()))           *)
(* so "current_time >= x_reset_time" is x_reset_in = 0.  Durations are in  *)
(* milliseconds, so that the "ms" unit of the reset headers is exact.      *)
(*                                                                         *)
(* Scheduling.  The coroutines of QueueManager run on one event loop: a    *)
(* coroutine is left only at an await that really suspends, and no         *)
(* "async with self._async_lock" of the source ever finds the lock held    *)
(* (no section awaits inside), so enqueue and each worker step up to the   *)
(* await of the callable are one atomic action each.  process_queue() is   *)
(* the synchronous driver; it may run in another thread, it uses           *)
(* self._sync_lock and not self._async_lock, and so it interleaves with    *)
(* the event loop between its lock sections.                               *)
(*                                                                         *)
(* Specifications.  Spec is the queue manager with the tracker it holds;   *)
(* TrackerSpec is the tracker alone, with every operation it offers.  Spec *)
(* leaves last_update alone: update_from_headers writes it, but only       *)
(* needs_refresh reads it, and no step of the queue manager calls that.    *)
(* LockSpec follows the locks: every "with" block of the three threads is  *)
(* an acquire step and a release step, and the data that decides a branch  *)
(* is left open, so each branch of the source is taken.  ScenarioSpec is   *)
(* the tracker fed with the headers of the limit-change scenario.          *)
(* RegistrySpec is the registry used by one thread, RegistrySwapSpec the   *)
(* registry with one thread that populates and one that looks models up;   *)
(* both start from a registry made with or without an API key.             *)
(* NoClearSpec is Spec without clear_queue; LiveSpec is the queue manager  *)
(* without stop_processing and clear_queue under fair scheduling;          *)
(* ClientSpec is GroqClient.enqueue_request with the queue manager behind  *)
(* it.  GenerateSpec is generate called by one thread, down to the         *)
(* statements of the registry population its lookups start; HandlerSpec is *)
(* generate in one thread and transcribe in another, on a registry that    *)
(* was populated at construction.                                          *)
(***************************************************************************)
EXTENDS Integers, Sequences, FiniteSets, TLC

(***************************************************************************)
(* Bounds of the model.                                                    *)
(***************************************************************************)
MaxRequests == 2        \* accepted enqueue calls explored
MaxQueueSize == 1       \* max_queue_size given to the constructor
MaxHeaderInt == 2       \* largest limit or remaining value in a header

(***************************************************************************)
(* Program constants.                                                      *)
(***************************************************************************)
MS_PER_SECOND == 1000
DEFAULT_WAIT_SECONDS == 60
MAX_WAIT_SECONDS == 300
REQUEST_REFRESH_SECONDS == 30
TOKEN_REFRESH_SECONDS == 60
STALE_AFTER_SECONDS == 600

Max(a, b) == IF a >= b THEN a ELSE b
Min(a, b) == IF a <= b THEN a ELSE b

(***************************************************************************)
(* Header values are strings, modelled as sequences of characters.         *)
(***************************************************************************)
Digits == {"0", "1", "2", "3", "4", "5", "6", "7", "8", "9"}
Letters == {"s", "m", "h", "S", "M", "H", "x"}

DigitVal(c) ==
    CASE c = "0" -> 0 [] c = "1" -> 1 [] c = "2" -> 2 [] c = "3" -> 3
      [] c = "4" -> 4 [] c = "5" -> 5 [] c = "6" -> 6 [] c = "7" -> 7
      [] c = "8" -> 8 [] c = "9" -> 9

LowerChar(c) ==
    CASE c = "S" -> "s" [] c = "M" -> "m" [] c = "H" -> "h" [] OTHER -> c

RECURSIVE DigitsValue(_)
DigitsValue(s) ==
    IF s = <<>> THEN 0
    ELSE 10 * DigitsValue(SubSeq(s, 1, Len(s) - 1)) + DigitVal(s[Len(s)])

\* int(value) for a header value: a ValueError unless the text is a decimal
\* numeral (signs, blanks and underscores are outside the inputs explored).
IntParses(s) == s # <<>> /\ \A i \in 1..Len(s) : s[i] \in Digits
ParseInt(s) == DigitsValue(s)

RECURSIVE PrefixLen(_, _)
\* length of the longest prefix of s whose characters are all in set
PrefixLen(s, set) ==
    IF s = <<>> \/ s[1] \notin set THEN 0
    ELSE 1 + PrefixLen(Tail(s), set)

\* _parse_time_string: re.match(r'(\d+(?:\.\d+)?)([a-zA-Z]+)'), the unit
\* lower-cased; result in milliseconds (inputs carry no decimal point).
parse_time_string(s) ==
    LET nd == PrefixLen(s, Digits)
        rest == SubSeq(s, nd + 1, Len(s))
        nl == PrefixLen(rest, Letters)
        value == DigitsValue(SubSeq(s, 1, nd))
        unit == [i \in 1..nl |-> LowerChar(rest[i])]
    IN  IF s = <<>> THEN 0
        ELSE IF nd = 0 \/ nl = 0 THEN 0
        ELSE IF unit = <<"s">> THEN value * MS_PER_SECOND
        ELSE IF unit = <<"m", "s">> THEN value
        ELSE IF unit = <<"m">> THEN value * 60 * MS_PER_SECOND
        ELSE IF unit = <<"h">> THEN value * 3600 * MS_PER_SECOND
        ELSE 0

(***************************************************************************)
(* RateLimitHandler: the tracker state is one record.                      *)
(***************************************************************************)
RateLimitInit ==
    [ request_limit |-> 0, request_remaining |-> 0,
      request_reset_armed |-> FALSE, request_reset_in |-> 0,
      token_limit |-> 0, token_remaining |-> 0,
      token_reset_armed |-> FALSE, token_reset_in |-> 0,
      audio_seconds_limit |-> 0, audio_seconds_remaining |-> 0,
      audio_seconds_reset_armed |-> FALSE, audio_seconds_reset_in |-> 0 ]

\* The clock advances by d milliseconds.
Elapse(t, d) ==
    [t EXCEPT !.request_reset_in = Max(0, @ - d),
              !.token_reset_in = Max(0, @ - d),
              !.audio_seconds_reset_in = Max(0, @ - d)]

\* a faulty lazy reset that clears a passed deadline and leaves remaining as
\* it is: C18 tells it from the code
LazyResetClearOnly(t) ==
    [t EXCEPT !.request_reset_armed = @ /\ t.request_reset_in > 0,
              !.token_reset_armed = @ /\ t.token_reset_in > 0,
              !.audio_seconds_reset_armed = @ /\ t.audio_seconds_reset_in > 0]

\* "if self.x_reset_time > 0 and current_time >= self.x_reset_time:
\*      self.x_remaining = self.x_limit; self.x_reset_time = 0"
LazyReset(t) ==
    LET t1 == IF t.request_reset_armed /\ t.request_reset_in = 0
              THEN [t EXCEPT !.request_remaining = t.request_limit,
                             !.request_reset_armed = FALSE]
              ELSE t
        t2 == IF t1.token_reset_armed /\ t1.token_reset_in = 0
              THEN [t1 EXCEPT !.token_remaining = t1.token_limit,
                              !.token_reset_armed = FALSE]
              ELSE t1
    IN  IF t2.audio_seconds_reset_armed /\ t2.audio_seconds_reset_in = 0
        THEN [t2 EXCEPT !.audio_seconds_remaining = t2.audio_seconds_limit,
                        !.audio_seconds_reset_armed = FALSE]
        ELSE t2

\* a faulty admission check that compares the amount asked with the limit
\* of the window, not with what remains of it: C25 tells it from the code
CanProceedAgainstLimit(t, tokens, requests, audio_seconds) ==
    LET u == LazyReset(t)
    IN  /\ ~(u.request_limit > 0 /\ u.request_limit < requests)
        /\ ~(u.token_limit > 0 /\ u.token_limit < tokens)
        /\ ~(u.audio_seconds_limit > 0
             /\ u.audio_seconds_limit < audio_seconds)

\* a faulty admission check that also applies a window whose limit is 0:
\* C17 tells it from the code
CanProceedUnguarded(t, tokens, requests, audio_seconds) ==
    LET u == LazyReset(t)
    IN  /\ ~(u.request_remaining < requests)
        /\ ~(u.token_remaining < tokens)
        /\ ~(u.audio_seconds_remaining < audio_seconds)

\* can_proceed(tokens, requests, audio_seconds) on tracker t: the verdict,
\* evaluated after the lazy reset the call performs.
CanProceed(t, tokens, requests, audio_seconds) ==
    LET u == LazyReset(t)
    IN  /\ ~(u.request_limit > 0 /\ u.request_remaining < requests)
        /\ ~(u.token_limit > 0 /\ u.token_remaining < tokens)
        /\ ~(u.audio_seconds_limit > 0
             /\ u.audio_seconds_remaining < audio_seconds)

\* a faulty wait computation in which each pending window overwrites the
\* wait of the windows before it, in place of max(): C21 tells it from the
\* code
WaitTimeLast(t) ==
    LET w1 == IF t.request_reset_armed /\ t.request_reset_in > 0
              THEN t.request_reset_in ELSE 0
        w2 == IF t.token_reset_armed /\ t.token_reset_in > 0
              THEN t.token_reset_in ELSE w1
        w3 == IF t.audio_seconds_reset_armed /\ t.audio_seconds_reset_in > 0
              THEN t.audio_seconds_reset_in ELSE w2
    IN  IF w3 = 0 THEN DEFAULT_WAIT_SECONDS * MS_PER_SECOND ELSE w3

\* wait_if_needed: the wait it computes, in milliseconds.
WaitTime(t) ==
    LET w1 == IF t.request_reset_armed /\ t.request_reset_in > 0
              THEN t.request_reset_in ELSE 0
        w2 == IF t.token_reset_armed /\ t.token_reset_in > 0
              THEN Max(w1, t.token_reset_in) ELSE w1
        w3 == IF t.audio_seconds_reset_armed /\ t.audio_seconds_reset_in > 0
              THEN Max(w2, t.audio_seconds_reset_in) ELSE w2
    IN  IF w3 = 0 THEN DEFAULT_WAIT_SECONDS * MS_PER_SECOND ELSE w3

\* wait_if_needed raises (RateLimitExceeded, re-raised as LockError by the
\* enclosing "except Exception") when the wait exceeds five minutes.
WaitRaises(t) == WaitTime(t) > MAX_WAIT_SECONDS * MS_PER_SECOND

\* a faulty wait that returns right after the sleep: C20 tells it from the
\* code
WaitIfNeededNoReset(t) == Elapse(t, WaitTime(t))

\* wait_if_needed when it does not raise: sleep, then the lazy reset.
WaitIfNeeded(t) == LazyReset(Elapse(t, WaitTime(t)))

(***************************************************************************)
(* last_update, kept like the reset deadlines: "set" is last_update > 0    *)
(* and "age" is time.time() - last_update in milliseconds, which is only   *)
(* ever compared with the staleness threshold and so is kept up to one     *)
(* millisecond past it.                                                    *)
(***************************************************************************)
LastUpdateInit == [set |-> FALSE, age |-> 0]

\* "self.last_update = time.time()"
Stamp == [set |-> TRUE, age |-> 0]

\* the clock advances by d milliseconds
Age(lu, d) ==
    IF lu.set
    THEN [lu EXCEPT !.age = Min(STALE_AFTER_SECONDS * MS_PER_SECOND + 1, @ + d)]
    ELSE lu

\* _has_rate_limit_info
HasRateLimitInfo(t, lu) ==
    t.request_limit > 0 \/ t.token_limit > 0 \/ lu.set

\* needs_refresh
NeedsRefresh(t, lu) ==
    \/ ~HasRateLimitInfo(t, lu)
    \/ /\ t.request_reset_armed
       /\ t.request_reset_in < REQUEST_REFRESH_SECONDS * MS_PER_SECOND
    \/ /\ t.token_reset_armed
       /\ t.token_reset_in < TOKEN_REFRESH_SECONDS * MS_PER_SECOND
    \/ /\ lu.set
       /\ lu.age > STALE_AFTER_SECONDS * MS_PER_SECOND

\* refresh_if_needed without api_callback, when a refresh is needed: "if
\* self.x_reset_time > 0 and current_time >= self.x_reset_time:
\* self.x_reset_time = 0" for the request and the token window
RefreshWithoutCallback(t) ==
    [t EXCEPT !.request_reset_armed = @ /\ t.request_reset_in > 0,
              !.token_reset_armed = @ /\ t.token_reset_in > 0]

(***************************************************************************)
(* update_from_headers.  A header dict is a function from header names to  *)
(* character sequences.  The headers are taken in the order of the source; *)
(* a value that does not parse raises ValidationError inside the "try",    *)
(* which the enclosing "except Exception" re-raises as LockError, and the  *)
(* fields assigned before it keep their new values.                        *)
(***************************************************************************)
HeaderFields ==
    << [hdr |-> "x-ratelimit-limit-requests", kind |-> "int",
        field |-> "request_limit"],
       [hdr |-> "x-ratelimit-remaining-requests", kind |-> "int",
        field |-> "request_remaining"],
       [hdr |-> "x-ratelimit-reset-requests", kind |-> "time",
        field |-> "request_reset"],
       [hdr |-> "x-ratelimit-limit-tokens", kind |-> "int",
        field |-> "token_limit"],
       [hdr |-> "x-ratelimit-remaining-tokens", kind |-> "int",
        field |-> "token_remaining"],
       [hdr |-> "x-ratelimit-reset-tokens", kind |-> "time",
        field |-> "token_reset"],
       [hdr |-> "x-ratelimit-limit-audio-seconds", kind |-> "int",
        field |-> "audio_seconds_limit"],
       [hdr |-> "x-ratelimit-remaining-audio-seconds", kind |-> "int",
        field |-> "audio_seconds_remaining"],
       [hdr |-> "x-ratelimit-reset-audio-seconds", kind |-> "time",
        field |-> "audio_seconds_reset"] >>

\* one "if '<header>' in headers:" block of update_from_headers
IngestField(acc, headers, f) ==
    IF acc.raised # "none" \/ f.hdr \notin DOMAIN headers THEN acc
    ELSE IF f.kind = "int"
    THEN IF IntParses(headers[f.hdr])
         THEN [acc EXCEPT !.rl[f.field] = ParseInt(headers[f.hdr])]
         ELSE [acc EXCEPT !.raised = "ValidationError", !.param = f.hdr]
    ELSE LET armed == f.field \o "_armed"
             rin == f.field \o "_in"
         IN  [acc EXCEPT !.rl[armed] = TRUE,
                         !.rl[rin] = parse_time_string(headers[f.hdr])]

RECURSIVE IngestFrom(_, _, _)
IngestFrom(acc, headers, i) ==
    IF i > Len(HeaderFields) THEN acc
    ELSE IngestFrom(IngestField(acc, headers, HeaderFields[i]), headers, i + 1)

\* a faulty change detection that looks at the request limit only: C24
\* tells it from the code
OnLimitsChangedRequestOnly(old, new) ==
    IF old.request_limit # new.request_limit
    THEN << [request_limit_changed |-> TRUE,
             old_request_limit |-> old.request_limit,
             new_request_limit |-> new.request_limit,
             token_limit_changed |-> old.token_limit # new.token_limit,
             old_token_limit |-> old.token_limit,
             new_token_limit |-> new.token_limit] >>
    ELSE <<>>

\* the end of update_from_headers: the calls of self._on_limits_changed it
\* makes, each with its keyword arguments; old is the tracker at the entry of
\* the call, new the tracker after the headers were read
OnLimitsChanged(old, new) ==
    LET request_limit_changed == old.request_limit # new.request_limit
        token_limit_changed == old.token_limit # new.token_limit
    IN  IF request_limit_changed \/ token_limit_changed
        THEN << [request_limit_changed |-> request_limit_changed,
                 old_request_limit |-> old.request_limit,
                 new_request_limit |-> new.request_limit,
                 token_limit_changed |-> token_limit_changed,
                 old_token_limit |-> old.token_limit,
                 new_token_limit |-> new.token_limit] >>
        ELSE <<>>

\* update_from_headers(headers) on tracker t: the tracker afterwards, the
\* exception that leaves the call ("none" when it returns) and the calls of
\* the change hook.
UpdateFromHeaders(t, headers) ==
    IF DOMAIN headers = {}
    THEN [rl |-> t, raised |-> "ValidationError", param |-> "headers",
          hook |-> <<>>]
    ELSE LET r == IngestFrom([rl |-> t, raised |-> "none", param |-> "",
                              hook |-> <<>>], headers, 1)
         IN  IF r.raised = "none"
             THEN [r EXCEPT !.hook = OnLimitsChanged(t, r.rl)]
             ELSE [r EXCEPT !.raised = "LockError"]

(***************************************************************************)
(* QueueManager.                                                           *)
(***************************************************************************)
PriorityValues == {"low", "normal", "high", "urgent"}
PriorityOrder == <<"urgent", "high", "normal", "low">>

\* str.lower() on the priority arguments explored
Lower(s) ==
    CASE s = "URGENT" -> "urgent" [] s = "Low" -> "low" [] OTHER -> s

\* a faulty coercion that files an unknown priority under low: C15 tells it
\* from the code
PriorityEnumLow(s) ==
    IF Lower(s) \in PriorityValues THEN Lower(s) ELSE "low"

\* "try: Priority(priority.lower()) except ValueError: Priority.NORMAL"
PriorityEnum(s) ==
    IF Lower(s) \in PriorityValues THEN Lower(s) ELSE "normal"

\* Arguments given to enqueue: priority, tokens_required, max_retries (all
\* pass the argument checks of enqueue), and the second int(time.time()) in
\* which the call is made (the calls explored fall in one second, where
\* only the counter tells the ids apart).
EnqueueArgs ==
    { [priority |-> "URGENT", tokens_required |-> 0, max_retries |-> 1,
       ts |-> 0],
      [priority |-> "normal", tokens_required |-> 0, max_retries |-> 0,
       ts |-> 0],
      [priority |-> "unknown-value", tokens_required |-> 2, max_retries |-> 1,
       ts |-> 0],
      [priority |-> "Low", tokens_required |-> 0, max_retries |-> 0,
       ts |-> 0] }

\* Response headers ingested while the queue runs.
TokenHeaders(limit, remaining, reset) ==
    [h \in {"x-ratelimit-limit-tokens", "x-ratelimit-remaining-tokens",
             "x-ratelimit-reset-tokens"} |->
        IF h = "x-ratelimit-limit-tokens" THEN limit
        ELSE IF h = "x-ratelimit-remaining-tokens" THEN remaining
        ELSE reset]
HeaderSets ==
    { TokenHeaders(<<"3">>, <<"1">>, <<"2", "s">>),
      TokenHeaders(<<"3">>, <<"1">>, <<"6", "m">>) }

\* Exceptions: the class, its numeric attributes, its last_error attribute
\* (the class of the error it carries) and the class of the exception that
\* was being handled when it was raised (__context__).
Exc(type, attrs, last_error, context) ==
    [type |-> type, attrs |-> attrs, last_error |-> last_error,
     context |-> context]
NoError == Exc("none", <<>>, "none", "none")
QueueFullError(queue_size, max_size) ==
    Exc("QueueFullError", <<queue_size, max_size>>, "none", "none")
ValidationError == Exc("ValidationError", <<>>, "none", "none")
\* "except Exception as e: raise LockError(f'...: {str(e)}')"
LockError(e) == Exc("LockError", <<>>, "none", e.type)
\* "except Exception as e: raise ThreadingError(f'...: {str(e)}')"
ThreadingError(e) == Exc("ThreadingError", <<>>, "none", e.type)
RetryError(max_retries, error) ==
    Exc("RetryError", <<max_retries>>, error.type, error.type)
RateLimitExceeded(wait_time) ==
    Exc("RateLimitExceeded", <<wait_time>>, "none", "none")
\* what a request callable raises
NetworkError == Exc("NetworkError", <<>>, "none", "none")

NoId == <<0, 0>>
NoCall ==
    [op |-> "none", args |-> <<0, 0, 0>>, result |-> FALSE, slept |-> 0,
     hook |-> <<>>]
NoRequest ==
    [id |-> NoId, priority |-> "normal", retry_count |-> 0, max_retries |-> 0,
     tokens_required |-> 0, original_priority |-> "normal"]

(***************************************************************************)
(* Threads and locks.  "loop" is the thread of the event loop, which runs  *)
(* the task of _process_queue_async; "sync" is a thread in process_queue;  *)
(* "caller" is any other thread that uses the tracker directly.            *)
(***************************************************************************)
Threads == {"loop", "sync", "caller"}
Locks == {"lock", "_sync_lock", "_async_lock"}
NoThread == "none"

(***************************************************************************)
(* ModelRegistry.  The table _models maps a model id to its descriptor.    *)
(* _last_fetch is kept like last_update of the tracker: "set" is           *)
(* _last_fetch > 0 and "age" is time.time() - _last_fetch in seconds, kept *)
(* up to _fetch_interval, from where on the cache is stale whatever the    *)
(* age.  The registry has an api_key (without one it never reads the       *)
(* catalog).                                                               *)
(***************************************************************************)
FETCH_INTERVAL_SECONDS == 3600
RegistryThreads == {"r1", "r2"}

EmptyTable == [m \in {} |-> 0]
NeverFetched == [set |-> FALSE, age |-> 0]

\* str.lower() of the model ids explored, and "whisper" in it
IsWhisper(model_id) == model_id \in {"whisper-large-v3", "Whisper-Tiny"}

\* _determine_model_type
determine_model_type(model_id) ==
    IF IsWhisper(model_id) THEN "stt" ELSE "chat"

\* One entry of the "data" array of the catalog.  An entry that is a JSON
\* object has "object" TRUE and the keys given; an entry that is not (a
\* string, a number) has "object" FALSE, and model.get raises on it.
CatalogEntry(id, active, context_window) ==
    [object |-> TRUE, id |-> id, active |-> active,
     context_window |-> context_window]
NotAnObject ==
    [object |-> FALSE, id |-> "", active |-> FALSE, context_window |-> 0]

\* What requests.get and response.json() give: requests.get raises; the
\* status is not 200; the body is not JSON; the body is JSON but not an
\* object (models_data.get raises); the body is an object with "data".
Response(kind, data) == [kind |-> kind, data |-> data]
Responses ==
    { Response("transport_error", <<>>),
      Response("status_500", <<>>),
      Response("undecodable", <<>>),
      Response("not_an_object", <<>>),
      Response("catalog", << CatalogEntry("llama-3.1-8b", TRUE, 8192),
                             CatalogEntry("Whisper-Tiny", TRUE, 0),
                             CatalogEntry("retired-model", FALSE, 4096) >>),
      Response("catalog", << CatalogEntry("gemma2-9b", TRUE, 8192) >>),
      Response("catalog", << CatalogEntry("llama-3.1-8b", TRUE, 8192),
                             NotAnObject >>) }

\* the body of the "for model in ..." loop for an entry that is an object:
\* the table afterwards
StoreEntry(models, e) ==
    IF e.id # "" /\ e.active /\ determine_model_type(e.id) \in {"chat", "stt"}
    THEN (e.id :> [type |-> determine_model_type(e.id),
                   max_tokens |-> e.context_window,
                   active |-> e.active]) @@ models
    ELSE models

RECURSIVE StoreEntries(_, _)
\* the table the loop builds from the entries, none of which raises
StoreEntries(models, entries) ==
    IF entries = <<>> THEN models
    ELSE StoreEntries(StoreEntry(models, Head(entries)), Tail(entries))

\* a faulty cache check that never finds the cache valid: C28 tells it from
\* the code
CacheNeverValid(last_fetch) == FALSE

\* "current_time - self._last_fetch < self._fetch_interval"
CacheValid(last_fetch) ==
    last_fetch.set /\ last_fetch.age < FETCH_INTERVAL_SECONDS

\* the clock advances by d seconds
AgeFetch(last_fetch, d) ==
    IF last_fetch.set
    THEN [last_fetch EXCEPT !.age = Min(FETCH_INTERVAL_SECONDS, @ + d)]
    ELSE last_fetch

\* The call a thread has made on the registry.  "op" is the method, "model"
\* its argument, "at" the statement the thread is at; "since" is the time
\* since it read current_time; "body" is models_data and "next" the index of
\* the entry the loop is at; "before" is the table as it was when the call
\* began; "seen" is the table as the lookup read it and "result" what the
\* call returned or raised.
\* __init__: the table is empty and nothing was fetched; api_key says
\* whether a key was given
NewRegistry(api_key) ==
    [models |-> EmptyTable, last_fetch |-> NeverFetched, api_key |-> api_key]

NoFetch ==
    [op |-> "none", model |-> "", at |-> "idle", since |-> 0, body |-> <<>>,
     next |-> 1, before |-> EmptyTable]

\* The call a thread has made on a handler.  "op" is the method, "at" the
\* statement the thread is at, "model" and "max_tokens" are arguments;
\* "counted" is what count_message_tokens returns for the messages given and
\* "audio" what _estimate_audio_duration returns for the file given;
\* "admitted" says that can_proceed returned True to this call and that no
\* headers were ingested and no deadline passed since.
NoGenerate ==
    [op |-> "none", at |-> "idle", model |-> "", counted |-> 0,
     max_tokens |-> 0, audio |-> 0, admitted |-> FALSE]

VARIABLES
    queues,             \* self._queues: priority -> list of QueuedRequest
    stats,              \* self._stats
    request_counter,    \* self._request_counter
    processing,         \* self._processing
    rl,                 \* self.rate_limit_handler
    apc, aidx, areq,    \* the task of _process_queue_async: where it is, the
                        \* index in the priority loop, the request in flight
    spc, sreq,          \* the thread in process_queue: where it is, the
                        \* request it holds
    event,              \* the last step taken: the id of the request it was
                        \* about, the exception it let out, the priority
                        \* argument of enqueue
    issued,             \* the ids returned by enqueue, in order
    attempts,           \* per request counter, while the request is in the
                        \* queue manager: invocations and failures of its
                        \* callable
    last_update,        \* rate_limit_handler.last_update (TrackerSpec)
    call,               \* the last call made on the tracker: its arguments
                        \* and the value it returned (TrackerSpec)
    ingested,           \* history: update_from_headers has read headers
                        \* since the tracker was constructed or reset, also
                        \* when it failed at one of them (TrackerSpec)
    pc,                 \* per thread, the statement it is at (LockSpec)
    held,               \* per lock, the thread that holds it (LockSpec)
    registry,           \* the ModelRegistry: _models and _last_fetch
                        \* (RegistrySpec, RegistrySwapSpec)
    fetch,              \* per thread, the call it has made on the registry:
                        \* where it is, its local variables, what it read
                        \* and what it returned
    gen                 \* per thread, the call it has made on a handler
                        \* (generate, transcribe): where it is, its arguments
                        \* and local variables (GenerateSpec, HandlerSpec)

vars == <<queues, stats, request_counter, processing, rl, apc, aidx, areq,
          spc, sreq, event, issued, attempts, last_update, call, ingested,
          pc, held, registry, fetch, gen>>

Event(kind, id, raised, arg) ==
    [kind |-> kind, id |-> id, raised |-> raised, arg |-> arg]

InitExceptRegistry ==
    /\ queues = [p \in PriorityValues |-> <<>>]
    /\ stats = [total_queued |-> 0, total_processed |-> 0,
                total_failed |-> 0, total_retries |-> 0]
    /\ request_counter = 0
    /\ processing = FALSE
    /\ rl = RateLimitInit
    /\ apc = "off" /\ aidx = 1 /\ areq = NoRequest
    /\ spc = "idle" /\ sreq = NoRequest
    /\ event = Event("init", NoId, NoError, "")
    /\ issued = <<>>
    /\ attempts = [n \in 1..MaxRequests |-> [invoked |-> 0, failed |-> 0]]
    /\ last_update = LastUpdateInit
    /\ call = NoCall
    /\ ingested = FALSE
    /\ pc = [t \in Threads |-> "idle"]
    /\ held = [l \in Locks |-> NoThread]
    /\ fetch = [t \in RegistryThreads |-> NoFetch]
    /\ gen = [t \in RegistryThreads |-> NoGenerate]

\* a registry made with an API key whose first population failed
Init ==
    /\ InitExceptRegistry
    /\ registry = NewRegistry(TRUE)

\* a registry made with or without an API key
RegistryInit ==
    /\ InitExceptRegistry
    /\ registry \in {NewRegistry(api_key) : api_key \in BOOLEAN}

\* "sum(len(queue) for queue in self._queues.values())"
RECURSIVE SumLen(_, _)
SumLen(qs, ps) ==
    IF ps = {} THEN 0
    ELSE LET p == CHOOSE x \in ps : TRUE
         IN  Len(qs[p]) + SumLen(qs, ps \ {p})
QueueTotal(qs) == SumLen(qs, PriorityValues)

\* _has_pending_requests
HasPendingRequests(qs) == \E p \in PriorityValues : Len(qs[p]) > 0

\* a faulty id generator, "self._request_counter = 1" in place of "+= 1":
\* C6 tells it from the code
GenerateRequestIdStuck(counter, ts) ==
    [counter |-> 1, id |-> <<ts, 1>>]

\* _generate_request_id: the counter afterwards and the id returned,
\* f"req_{int(time.time())}_{self._request_counter}" as the pair of numbers
GenerateRequestId(counter, ts) ==
    [counter |-> counter + 1, id |-> <<ts, counter + 1>>]

\* the capacity check of enqueue
QueueIsFull(qs) == QueueTotal(qs) >= MaxQueueSize

\* the exception that leaves enqueue when the capacity check fails: the
\* QueueFullError is raised inside "try: ... except Exception as e: raise
\* LockError(...)"
EnqueueFullError(qs) == LockError(QueueFullError(QueueTotal(qs), MaxQueueSize))

\* a faulty rejection that has generated the request id before the capacity
\* check: C3 tells it from the code
EnqueueRejectAfterId(e) ==
    /\ event' = Event("enqueue_full", NoId, e, "")
    /\ request_counter' = request_counter + 1
    /\ UNCHANGED <<queues, stats, processing, rl, apc, aidx, areq, spc, sreq,
                   issued, attempts>>
    /\ UNCHANGED <<last_update, call, ingested>>
    /\ UNCHANGED <<pc, held, registry, fetch, gen>>

\* enqueue ends with exception e at the capacity check
EnqueueReject(e) ==
    /\ event' = Event("enqueue_full", NoId, e, "")
    /\ UNCHANGED <<queues, stats, request_counter, processing, rl, apc, aidx,
                   areq, spc, sreq, issued, attempts>>
    /\ UNCHANGED <<last_update, call, ingested>>
    /\ UNCHANGED <<pc, held, registry, fetch, gen>>

\* _start_processing: the flag and the worker task, which is created and
\* runs when the event loop next gets control
StartProcessing ==
    IF processing
    THEN UNCHANGED <<processing, apc, aidx, areq>>
    ELSE /\ processing' = TRUE
         /\ apc' = "sleep" /\ aidx' = 1 /\ areq' = NoRequest

\* enqueue accepted
EnqueueAccept(priority, tokens_required, max_retries, ts) ==
    LET g == GenerateRequestId(request_counter, ts)
        priority_enum == PriorityEnum(priority)
        queued_request ==
            [id |-> g.id, priority |-> priority_enum, retry_count |-> 0,
             max_retries |-> max_retries, tokens_required |-> tokens_required,
             original_priority |-> priority_enum]
    IN  /\ request_counter' = g.counter
        /\ queues' = [queues EXCEPT
                        ![priority_enum] = Append(@, queued_request)]
        /\ stats' = [stats EXCEPT !.total_queued = @ + 1]
        /\ StartProcessing
        /\ event' = Event("enqueued", queued_request.id, NoError, priority)
        /\ issued' = Append(issued, g.id)
        /\ UNCHANGED <<rl, spc, sreq, attempts>>
        /\ UNCHANGED <<last_update, call, ingested>>
        /\ UNCHANGED <<pc, held, registry, fetch, gen>>

\* enqueue, called on the event loop while no other coroutine is running
Enqueue ==
    /\ apc # "scan"
    /\ \E a \in EnqueueArgs :
        /\ a.tokens_required >= 0 /\ a.max_retries >= 0
        /\ IF QueueIsFull(queues)
           THEN EnqueueReject(EnqueueFullError(queues))
           ELSE /\ request_counter < MaxRequests
                /\ EnqueueAccept(a.priority, a.tokens_required,
                                 a.max_retries, a.ts)

(***************************************************************************)
(* The worker steps shared by the two drivers.                             *)
(***************************************************************************)
\* "request = self._queues[priority].pop(0)"
PopHead(qs, p) == [qs EXCEPT ![p] = Tail(@)]

\* a faulty push-back that appends the request: C11 tells it from the code
PushBackAtTail(qs, p, r) == [qs EXCEPT ![p] = Append(@, r)]

\* "self._queues[priority].insert(0, request)"
PushBack(qs, p, r) == [qs EXCEPT ![p] = <<r>> \o @]

\* a faulty retry branch that re-inserts with insert(0, request): C7 tells
\* it from the code
RequeueAtHead(qs, r) ==
    LET r2 == [r EXCEPT !.retry_count = @ + 1,
                        !.priority = r.original_priority]
    IN  [qs EXCEPT ![r2.priority] = <<r2>> \o @]

\* the retry branch: "request.retry_count += 1; request.priority =
\* request.original_priority or request.priority;
\* self._queues[request.priority].append(request)"
Requeue(qs, r) ==
    LET r2 == [r EXCEPT !.retry_count = @ + 1,
                        !.priority = r.original_priority]
    IN  [qs EXCEPT ![r2.priority] = Append(@, r2)]

\* a faulty retry test, "<=" in place of "<": C9 tells it from the code
MayRetryInclusive(r) == r.retry_count <= r.max_retries

\* "if request.retry_count < request.max_retries"
MayRetry(r) == r.retry_count < r.max_retries

\* a faulty error handler that counts a failure only when the retries are
\* exhausted: C10 tells it from the code
handle_request_error_uncounted(qs, st, r, error) ==
    IF MayRetry(r)
    THEN [queues |-> Requeue(qs, r),
          stats |-> [st EXCEPT !.total_retries = @ + 1],
          raised |-> NoError]
    ELSE [queues |-> qs, stats |-> [st EXCEPT !.total_failed = @ + 1],
          raised |-> RetryError(r.max_retries, error)]

\* _handle_request_error(request, error) with request already out of the
\* queues: the queues and statistics afterwards and the exception raised
handle_request_error(qs, st, r, error) ==
    LET st1 == [st EXCEPT !.total_failed = @ + 1]
    IN  IF MayRetry(r)
        THEN [queues |-> Requeue(qs, r),
              stats |-> [st1 EXCEPT !.total_retries = @ + 1],
              raised |-> NoError]
        ELSE [queues |-> qs, stats |-> st1,
              raised |-> RetryError(r.max_retries, error)]

\* _handle_request_error_sync: the same steps under self._sync_lock
handle_request_error_sync(qs, st, r, error) ==
    LET st1 == [st EXCEPT !.total_failed = @ + 1]
    IN  IF MayRetry(r)
        THEN [queues |-> Requeue(qs, r),
              stats |-> [st1 EXCEPT !.total_retries = @ + 1],
              raised |-> NoError]
        ELSE [queues |-> qs, stats |-> st1,
              raised |-> RetryError(r.max_retries, error)]

\* the exception wait_if_needed ends with when the wait is too long
WaitError(t) == LockError(RateLimitExceeded(WaitTime(t)))

\* the request's callable is invoked
Invoke(r) == attempts' = [attempts EXCEPT ![r.id[2]].invoked = @ + 1]

\* the request's callable has raised
CallableFailed(r) == attempts' = [attempts EXCEPT ![r.id[2]].failed = @ + 1]

\* the requests with these ids have left the queue manager
Forget(ids) ==
    attempts' = [n \in DOMAIN attempts |->
                    IF \E id \in ids : id[2] = n
                    THEN [invoked |-> 0, failed |-> 0] ELSE attempts[n]]

(***************************************************************************)
(* The task of _process_queue_async.  In "scan" the task is running (the   *)
(* event loop is busy) and about to call _process_priority_queue for       *)
(* PriorityOrder[aidx]; in "sleep" it is suspended in asyncio.sleep, or    *)
(* has just been created, and starts the "for" loop when it gets control;  *)
(* in "exec" it is suspended at the await of a callable.                   *)
(* _process_priority_queue returns at once on an empty queue, so a step    *)
(* goes on to the first non-empty queue.                                   *)
(***************************************************************************)
\* the index of the first non-empty queue at or after i in the "for
\* priority in [...]" loops, 0 when there is none
RECURSIVE FirstNonEmpty(_, _)
FirstNonEmpty(qs, i) ==
    IF i > Len(PriorityOrder) THEN 0
    ELSE IF qs[PriorityOrder[i]] # <<>> THEN i
    ELSE FirstNonEmpty(qs, i + 1)

\* the "for" loop moves on from index j; after LOW, asyncio.sleep(0.1)
AsyncAdvance(j) ==
    IF j < Len(PriorityOrder)
    THEN apc' = "scan" /\ aidx' = j + 1
    ELSE apc' = "sleep" /\ aidx' = 1

\* an exception leaves _process_priority_queue: "except Exception as e:
\* print(...); await asyncio.sleep(1)" in _process_queue_async
AsyncLoopCatch == apc' = "sleep" /\ aidx' = 1

\* what the task lets out of exception e: nothing, it is printed
AsyncSurfaced(e) == NoError

\* the error path of _process_priority_queue at index j for request r,
\* already popped
AsyncFail(qs, j, r, error) ==
    LET h == handle_request_error(qs, stats, r, error)
    IN  /\ queues' = h.queues
        /\ stats' = h.stats
        /\ areq' = NoRequest
        /\ IF h.raised = NoError
           THEN AsyncAdvance(j) /\ event' = Event("retry", r.id, NoError, "")
           ELSE /\ AsyncLoopCatch
                /\ event' = Event("exhausted", r.id, AsyncSurfaced(h.raised), "")

\* the task runs: the "for" loop from index aidx up to and including the
\* call of _process_priority_queue on the first non-empty queue, up to the
\* await of the callable (a pass of a sleeping task over four empty queues
\* changes nothing and is left out)
AsyncProcessPriorityQueue ==
    /\ apc \in {"sleep", "scan"}
    /\ apc = "sleep" => processing /\ HasPendingRequests(queues)
    /\ LET j == FirstNonEmpty(queues, aidx)
           priority == PriorityOrder[j]
           request == Head(queues[priority])
           popped == PopHead(queues, priority)
           checked == LazyReset(rl)
       IN  IF j = 0
           THEN /\ apc' = "sleep" /\ aidx' = 1
                /\ event' = Event("idle", NoId, NoError, "")
                /\ UNCHANGED <<queues, stats, rl, areq, attempts>>
           ELSE IF ~CanProceed(rl, request.tokens_required, 1, 0)
           THEN /\ queues' = PushBack(popped, priority, request)
                /\ rl' = checked
                /\ AsyncAdvance(j)
                /\ event' = Event("pushback", request.id, NoError, "")
                /\ UNCHANGED <<stats, areq, attempts>>
           ELSE IF WaitRaises(checked)
           THEN /\ AsyncFail(popped, j, request, WaitError(checked))
                /\ rl' = checked
                /\ IF MayRetry(request) THEN UNCHANGED attempts
                   ELSE Forget({request.id})
           ELSE /\ queues' = popped
                /\ rl' = WaitIfNeeded(checked)
                /\ apc' = "exec" /\ aidx' = j /\ areq' = request
                /\ Invoke(request)
                /\ event' = Event("dispatch", request.id, NoError, "")
                /\ UNCHANGED stats
    /\ UNCHANGED <<request_counter, processing, spc, sreq, issued>>
    /\ UNCHANGED <<last_update, call, ingested>>
    /\ UNCHANGED <<pc, held, registry, fetch, gen>>

\* the awaited callable returns
AsyncCallableReturns ==
    /\ apc = "exec"
    /\ stats' = [stats EXCEPT !.total_processed = @ + 1]
    /\ areq' = NoRequest
    /\ AsyncAdvance(aidx)
    /\ event' = Event("processed", areq.id, NoError, "")
    /\ Forget({areq.id})
    /\ UNCHANGED <<queues, request_counter, processing, rl, spc, sreq,
                   issued>>
    /\ UNCHANGED <<last_update, call, ingested>>
    /\ UNCHANGED <<pc, held, registry, fetch, gen>>

\* the awaited callable raises
AsyncCallableRaises ==
    /\ apc = "exec"
    /\ AsyncFail(queues, aidx, areq, NetworkError)
    /\ IF MayRetry(areq) THEN CallableFailed(areq) ELSE Forget({areq.id})
    /\ UNCHANGED <<request_counter, processing, rl, spc, sreq, issued>>
    /\ UNCHANGED <<last_update, call, ingested>>
    /\ UNCHANGED <<pc, held, registry, fetch, gen>>

(***************************************************************************)
(* The thread in process_queue.                                            *)
(***************************************************************************)
\* what process_queue lets out of exception e
ProcessQueueSurfaced(e) == ThreadingError(e)

\* process_queue is called (a call that finds nothing pending returns at
\* once and is left out)
ProcessQueue ==
    /\ spc = "idle"
    /\ HasPendingRequests(queues)
    /\ spc' = "run"
    /\ event' = Event("process_queue", NoId, NoError, "")
    /\ UNCHANGED <<queues, stats, request_counter, processing, rl, apc, aidx,
                   areq, sreq, issued, attempts>>
    /\ UNCHANGED <<last_update, call, ingested>>
    /\ UNCHANGED <<pc, held, registry, fetch, gen>>

\* "while self._has_pending_requests()" and the first lock section of
\* _process_sync
SyncPop ==
    /\ spc = "run"
    /\ LET i == FirstNonEmpty(queues, 1)
       IN  IF ~HasPendingRequests(queues)
           THEN /\ spc' = "idle"
                /\ event' = Event("drained", NoId, NoError, "")
                /\ UNCHANGED <<queues, sreq>>
           ELSE /\ sreq' = Head(queues[PriorityOrder[i]])
                /\ queues' = PopHead(queues, PriorityOrder[i])
                /\ spc' = "admit"
                /\ event' = Event("take", sreq'.id, NoError, "")
    /\ UNCHANGED <<stats, request_counter, processing, rl, apc, aidx, areq,
                   issued, attempts>>
    /\ UNCHANGED <<last_update, call, ingested>>
    /\ UNCHANGED <<pc, held, registry, fetch, gen>>

\* the error path of _process_sync for the request the thread holds
SyncFail(error) ==
    LET h == handle_request_error_sync(queues, stats, sreq, error)
    IN  /\ queues' = h.queues
        /\ stats' = h.stats
        /\ sreq' = NoRequest
        /\ IF h.raised = NoError
           THEN spc' = "run" /\ event' = Event("retry", sreq.id, NoError, "")
           ELSE /\ spc' = "idle"
                /\ event' = Event("exhausted", sreq.id,
                                  ProcessQueueSurfaced(h.raised), "")

\* _process_sync from can_proceed up to the call of the callable
SyncAdmit ==
    /\ spc = "admit"
    /\ LET checked == LazyReset(rl)
       IN  IF ~CanProceed(rl, sreq.tokens_required, 1, 0)
           THEN /\ queues' = PushBack(queues, sreq.priority, sreq)
                /\ rl' = checked
                /\ sreq' = NoRequest
                /\ spc' = "run"
                /\ event' = Event("pushback", sreq.id, NoError, "")
                /\ UNCHANGED <<stats, attempts>>
           ELSE IF WaitRaises(checked)
           THEN /\ SyncFail(WaitError(checked))
                /\ rl' = checked
                /\ IF MayRetry(sreq) THEN UNCHANGED attempts
                   ELSE Forget({sreq.id})
           ELSE /\ rl' = WaitIfNeeded(checked)
                /\ spc' = "exec"
                /\ Invoke(sreq)
                /\ event' = Event("dispatch", sreq.id, NoError, "")
                /\ UNCHANGED <<queues, stats, sreq>>
    /\ UNCHANGED <<request_counter, processing, apc, aidx, areq, issued>>
    /\ UNCHANGED <<last_update, call, ingested>>
    /\ UNCHANGED <<pc, held, registry, fetch, gen>>

\* the callable returns
SyncCallableReturns ==
    /\ spc = "exec"
    /\ stats' = [stats EXCEPT !.total_processed = @ + 1]
    /\ sreq' = NoRequest
    /\ spc' = "run"
    /\ event' = Event("processed", sreq.id, NoError, "")
    /\ Forget({sreq.id})
    /\ UNCHANGED <<queues, request_counter, processing, rl, apc, aidx, areq,
                   issued>>
    /\ UNCHANGED <<last_update, call, ingested>>
    /\ UNCHANGED <<pc, held, registry, fetch, gen>>

\* the callable raises
SyncCallableRaises ==
    /\ spc = "exec"
    /\ SyncFail(NetworkError)
    /\ IF MayRetry(sreq) THEN CallableFailed(sreq) ELSE Forget({sreq.id})
    /\ UNCHANGED <<request_counter, processing, rl, apc, aidx, areq, issued>>
    /\ UNCHANGED <<last_update, call, ingested>>
    /\ UNCHANGED <<pc, held, registry, fetch, gen>>

(***************************************************************************)
(* The other operations and the environment.                               *)
(***************************************************************************)
\* a faulty stop that also empties the queues: C14 tells it from the code
StopProcessingAndClear ==
    /\ apc # "scan"
    /\ processing \/ apc # "off"
    /\ processing' = FALSE
    /\ apc' = "off" /\ aidx' = 1 /\ areq' = NoRequest
    /\ queues' = [p \in PriorityValues |-> <<>>]
    /\ event' = Event("stop", NoId, NoError, "")
    /\ Forget({areq.id})
    /\ UNCHANGED <<stats, request_counter, rl, spc, sreq, issued>>
    /\ UNCHANGED <<last_update, call, ingested>>
    /\ UNCHANGED <<pc, held, registry, fetch, gen>>

\* stop_processing, called while the task is suspended: the flag is cleared
\* and the task cancelled; a task waiting for its callable gets
\* CancelledError at that await, which no "except Exception" catches
StopProcessing ==
    /\ apc # "scan"
    /\ processing \/ apc # "off"
    /\ processing' = FALSE
    /\ apc' = "off" /\ aidx' = 1 /\ areq' = NoRequest
    /\ event' = Event("stop", NoId, NoError, "")
    /\ Forget({areq.id})
    /\ UNCHANGED <<queues, stats, request_counter, rl, spc, sreq, issued>>
    /\ UNCHANGED <<last_update, call, ingested>>
    /\ UNCHANGED <<pc, held, registry, fetch, gen>>

\* clear_queue(priority); "all" stands for priority=None
ClearQueue ==
    \E priority \in PriorityValues \cup {"all"} :
        /\ queues' = [p \in PriorityValues |->
                        IF priority \in {"all", p} THEN <<>> ELSE queues[p]]
        /\ queues' # queues
        /\ event' = Event("clear", NoId, NoError, "")
        /\ Forget(UNION { {queues[p][i].id : i \in 1..Len(queues[p])} :
                            p \in {q \in PriorityValues :
                                      priority \in {"all", q}} })
        /\ UNCHANGED <<stats, request_counter, processing, rl, apc, aidx,
                       areq, spc, sreq, issued>>
        /\ UNCHANGED <<last_update, call, ingested>>
        /\ UNCHANGED <<pc, held, registry, fetch, gen>>

\* a response's headers are ingested (by a handler, or by a callable)
IngestHeaders(headers) ==
    LET u == UpdateFromHeaders(rl, headers)
    IN  /\ rl' = u.rl
        /\ rl' # rl
        /\ event' = Event("ingest", NoId,
                          Exc(u.raised, <<>>, "none", "none"), "")
        /\ UNCHANGED <<queues, stats, request_counter, processing, apc,
                       aidx, areq, spc, sreq, issued, attempts>>
        /\ UNCHANGED <<last_update, call, ingested>>
        /\ UNCHANGED <<pc, held, registry, fetch, gen>>

Ingest == \E headers \in HeaderSets : IngestHeaders(headers)

\* time passes until a pending reset deadline
PendingResets(t) ==
    { d \in {t.request_reset_in, t.token_reset_in, t.audio_seconds_reset_in} :
        d > 0 }

Tick ==
    \E d \in PendingResets(rl) :
        /\ rl' = Elapse(rl, d)
        /\ event' = Event("tick", NoId, NoError, "")
        /\ UNCHANGED <<queues, stats, request_counter, processing, apc, aidx,
                       areq, spc, sreq, issued, attempts>>
        /\ UNCHANGED <<last_update, call, ingested>>
        /\ UNCHANGED <<pc, held, registry, fetch, gen>>

Next ==
    \/ Enqueue
    \/ AsyncProcessPriorityQueue
    \/ AsyncCallableReturns
    \/ AsyncCallableRaises
    \/ ProcessQueue
    \/ SyncPop
    \/ SyncAdmit
    \/ SyncCallableReturns
    \/ SyncCallableRaises
    \/ StopProcessing
    \/ ClearQueue
    \/ Ingest
    \/ Tick

Spec == Init /\ [][Next]_vars

\* the queue manager on which clear_queue is never called
NextWithoutClear ==
    \/ Enqueue
    \/ AsyncProcessPriorityQueue
    \/ AsyncCallableReturns
    \/ AsyncCallableRaises
    \/ ProcessQueue
    \/ SyncPop
    \/ SyncAdmit
    \/ SyncCallableReturns
    \/ SyncCallableRaises
    \/ StopProcessing
    \/ Ingest
    \/ Tick

NoClearSpec == Init /\ [][NextWithoutClear]_vars

(***************************************************************************)
(* Progress.  The queue manager on which neither stop_processing nor       *)
(* clear_queue is called, and whose tracker ingests the headers of one     *)
(* response, which announce a token limit of one token.  The scheduling is *)
(* fair: a worker that can take a step takes it, a callable that was       *)
(* invoked returns or raises, and a pending reset deadline passes.         *)
(***************************************************************************)
LiveHeaderSets == { TokenHeaders(<<"1">>, <<"1">>, <<"2", "s">>) }

LiveIngest ==
    /\ rl = RateLimitInit
    /\ \E headers \in LiveHeaderSets : IngestHeaders(headers)

LiveNext ==
    \/ Enqueue
    \/ AsyncProcessPriorityQueue
    \/ AsyncCallableReturns
    \/ AsyncCallableRaises
    \/ ProcessQueue
    \/ SyncPop
    \/ SyncAdmit
    \/ SyncCallableReturns
    \/ SyncCallableRaises
    \/ LiveIngest
    \/ Tick

Fairness ==
    /\ WF_vars(AsyncProcessPriorityQueue)
    /\ WF_vars(AsyncCallableReturns \/ AsyncCallableRaises)
    /\ WF_vars(SyncPop)
    /\ WF_vars(SyncAdmit)
    /\ WF_vars(SyncCallableReturns \/ SyncCallableRaises)
    /\ WF_vars(Tick)

LiveSpec == Init /\ [][LiveNext]_vars /\ Fairness

(***************************************************************************)
(* The client.  GroqClient.enqueue_request is an ordinary function that    *)
(* checks its arguments and returns what QueueManager.enqueue returns.     *)
(* enqueue is a coroutine function: calling it makes a coroutine object    *)
(* and runs none of its body.  The body runs if the caller hands the       *)
(* object to the event loop, and that is the action Enqueue.                *)
(***************************************************************************)
ClientEnqueueArgs ==
    EnqueueArgs
    \cup { [priority |-> "high", tokens_required |-> -1, max_retries |-> 1,
            ts |-> 0] }

\* what "self.queue_manager.enqueue(...)" evaluates to without "await"
CoroutineObject == "coroutine"

ClientEnqueueRequest ==
    /\ \E a \in ClientEnqueueArgs :
         event' = IF a.tokens_required < 0 \/ a.max_retries < 0
                  THEN Event("enqueue_request", NoId, ValidationError, "")
                  ELSE Event("enqueue_request", NoId, NoError,
                             CoroutineObject)
    /\ UNCHANGED <<queues, stats, request_counter, processing, rl, apc, aidx,
                   areq, spc, sreq, issued, attempts>>
    /\ UNCHANGED <<last_update, call, ingested>>
    /\ UNCHANGED <<pc, held, registry, fetch, gen>>

ClientNext ==
    \/ ClientEnqueueRequest
    \/ Enqueue
    \/ AsyncProcessPriorityQueue
    \/ AsyncCallableReturns
    \/ AsyncCallableRaises

ClientSpec == Init /\ [][ClientNext]_vars

(***************************************************************************)
(* The RateLimitHandler on its own: every operation of the tracker, called *)
(* in any order by one caller, with the clock advancing between calls.     *)
(* The queue manager takes no step.  Spec above follows the tracker fields *)
(* that can_proceed and wait_if_needed read; last_update, which only       *)
(* needs_refresh reads, is followed here.                                  *)
(***************************************************************************)
Numeral(n) == <<CHOOSE c \in Digits : DigitVal(c) = n>>

\* the three headers of one window ("requests", "tokens", "audio-seconds")
WindowHeaders(w, limit, remaining, reset) ==
    [h \in {"x-ratelimit-limit-" \o w, "x-ratelimit-remaining-" \o w,
             "x-ratelimit-reset-" \o w} |->
        IF h = "x-ratelimit-limit-" \o w THEN limit
        ELSE IF h = "x-ratelimit-remaining-" \o w THEN remaining
        ELSE reset]

\* the header dicts given to update_from_headers
TrackerHeaderSets ==
    { WindowHeaders("requests", Numeral(l), Numeral(r), <<"2", "m">>) :
        l \in 1..MaxHeaderInt, r \in 0..MaxHeaderInt }
    \cup { WindowHeaders("tokens", <<"2">>, <<"0">>, <<"1", "m">>),
           WindowHeaders("audio-seconds", <<"1">>, <<"0">>, <<"6", "m">>) }
    \cup { WindowHeaders("requests", <<"1">>, <<"x">>, <<"2", "m">>),
           WindowHeaders("tokens", <<"x">>, <<"0">>, <<"1", "m">>),
           [h \in {} |-> <<>>] }

\* the arguments given to can_proceed: <<tokens, requests, audio_seconds>>
CanProceedArgs ==
    { <<0, r, 0>> : r \in 0..MaxHeaderInt } \cup { <<1, 1, 0>>, <<0, 1, 1>> }

\* a call on the tracker: its arguments, the value it returned, the time it
\* spent in time.sleep, in milliseconds, and the calls of _on_limits_changed
\* it made
TrackerCall(op, args, result) ==
    [op |-> op, args |-> args, result |-> result, slept |-> 0, hook |-> <<>>]

QueueManagerIdle ==
    UNCHANGED <<queues, stats, request_counter, processing, apc, aidx, areq,
                spc, sreq, issued, attempts>>

\* the exception that leaves update_from_headers: the ValidationError of
\* line 80 as it is, a ValidationError raised under the lock as LockError
UpdateError(u) ==
    IF u.raised = "none" THEN NoError
    ELSE IF u.raised = "LockError" THEN LockError(ValidationError)
    ELSE ValidationError

\* update_from_headers(headers)
UpdateFromHeadersCall(headers) ==
    LET u == UpdateFromHeaders(rl, headers)
    IN  /\ rl' = u.rl
        /\ last_update' = IF u.raised = "none" THEN Stamp ELSE last_update
        /\ ingested' = (ingested \/ DOMAIN headers # {})
        /\ event' = Event("update_from_headers", NoId, UpdateError(u), u.param)
        /\ call' = [TrackerCall("update_from_headers", <<0, 0, 0>>, FALSE)
                      EXCEPT !.hook = u.hook]
        /\ QueueManagerIdle
        /\ UNCHANGED <<pc, held, registry, fetch, gen>>

TrackerUpdateFromHeaders ==
    \E headers \in TrackerHeaderSets : UpdateFromHeadersCall(headers)

\* can_proceed(tokens, requests, audio_seconds), a = <<tokens, requests,
\* audio_seconds>>
CanProceedCall(a) ==
    /\ rl' = LazyReset(rl)
    /\ call' = TrackerCall("can_proceed", a, CanProceed(rl, a[1], a[2], a[3]))
    /\ event' = Event("can_proceed", NoId, NoError, "")
    /\ UNCHANGED <<last_update, ingested>>
    /\ QueueManagerIdle
    /\ UNCHANGED <<pc, held, registry, fetch, gen>>

TrackerCanProceed ==
    \E a \in CanProceedArgs : CanProceedCall(a)

\* wait_if_needed()
TrackerWaitIfNeeded ==
    /\ IF WaitRaises(rl)
       THEN /\ event' = Event("wait_if_needed", NoId, WaitError(rl), "")
            /\ call' = TrackerCall("wait_if_needed", <<0, 0, 0>>, FALSE)
            /\ UNCHANGED <<rl, last_update>>
       ELSE /\ rl' = WaitIfNeeded(rl)
            /\ last_update' = Age(last_update, WaitTime(rl))
            /\ event' = Event("wait_if_needed", NoId, NoError, "")
            /\ call' = [TrackerCall("wait_if_needed", <<0, 0, 0>>, FALSE)
                          EXCEPT !.slept = WaitTime(rl)]
    /\ UNCHANGED ingested
    /\ QueueManagerIdle
    /\ UNCHANGED <<pc, held, registry, fetch, gen>>

\* get_status()
TrackerGetStatus ==
    /\ rl' = LazyReset(rl)
    /\ event' = Event("get_status", NoId, NoError, "")
    /\ call' = TrackerCall("get_status", <<0, 0, 0>>,
                           HasRateLimitInfo(rl', last_update))
    /\ UNCHANGED <<last_update, ingested>>
    /\ QueueManagerIdle
    /\ UNCHANGED <<pc, held, registry, fetch, gen>>

\* refresh_if_needed() without api_callback
TrackerRefreshIfNeeded ==
    /\ IF NeedsRefresh(rl, last_update)
       THEN /\ rl' = RefreshWithoutCallback(rl)
            /\ last_update' = Stamp
       ELSE UNCHANGED <<rl, last_update>>
    /\ event' = Event("refresh_if_needed", NoId, NoError, "")
    /\ call' = TrackerCall("refresh_if_needed", <<0, 0, 0>>,
                           NeedsRefresh(rl, last_update))
    /\ UNCHANGED ingested
    /\ QueueManagerIdle
    /\ UNCHANGED <<pc, held, registry, fetch, gen>>

\* needs_refresh()
TrackerNeedsRefresh ==
    /\ call' = TrackerCall("needs_refresh", <<0, 0, 0>>,
                           NeedsRefresh(rl, last_update))
    /\ event' = Event("needs_refresh", NoId, NoError, "")
    /\ UNCHANGED <<rl, last_update, ingested>>
    /\ QueueManagerIdle
    /\ UNCHANGED <<pc, held, registry, fetch, gen>>

\* reset()
TrackerReset ==
    /\ rl' = RateLimitInit
    /\ last_update' = LastUpdateInit
    /\ ingested' = FALSE
    /\ event' = Event("reset", NoId, NoError, "")
    /\ call' = TrackerCall("reset", <<0, 0, 0>>, FALSE)
    /\ QueueManagerIdle
    /\ UNCHANGED <<pc, held, registry, fetch, gen>>

\* the clock advances to a pending reset deadline
TrackerTick ==
    \E d \in PendingResets(rl) :
        /\ rl' = Elapse(rl, d)
        /\ last_update' = Age(last_update, d)
        /\ event' = Event("tick", NoId, NoError, "")
        /\ call' = NoCall
        /\ UNCHANGED ingested
        /\ QueueManagerIdle
        /\ UNCHANGED <<pc, held, registry, fetch, gen>>

TrackerNext ==
    \/ TrackerUpdateFromHeaders
    \/ TrackerCanProceed
    \/ TrackerWaitIfNeeded
    \/ TrackerGetStatus
    \/ TrackerRefreshIfNeeded
    \/ TrackerNeedsRefresh
    \/ TrackerReset
    \/ TrackerTick

TrackerSpec == Init /\ [][TrackerNext]_vars

(***************************************************************************)
(* The tracker with the header sets of the first scenario of the spec,     *)
(* "header ingestion changes limits": limits of 100 and 200 requests,      *)
(* resets announced in 60 s and in 30 s.                                   *)
(***************************************************************************)
ScenarioHeaderSets ==
    { WindowHeaders("requests", <<"1", "0", "0">>, <<"1", "0", "0">>,
                    <<"6", "0", "s">>),
      WindowHeaders("requests", <<"2", "0", "0">>, <<"1", "8", "0">>,
                    <<"3", "0", "s">>) }

ScenarioArgs == { <<0, 1, 0>>, <<0, 180, 0>>, <<0, 190, 0>> }

ScenarioUpdateFromHeaders ==
    \E headers \in ScenarioHeaderSets : UpdateFromHeadersCall(headers)

ScenarioCanProceed ==
    \E a \in ScenarioArgs : CanProceedCall(a)

ScenarioNext ==
    \/ ScenarioUpdateFromHeaders
    \/ ScenarioCanProceed
    \/ TrackerWaitIfNeeded
    \/ TrackerGetStatus
    \/ TrackerRefreshIfNeeded
    \/ TrackerReset
    \/ TrackerTick

ScenarioSpec == Init /\ [][ScenarioNext]_vars

(***************************************************************************)
(* The locks.  The program of a thread maps each statement it can be at to *)
(* what the statement does:                                                *)
(*   "call"     the thread is outside and calls in;                        *)
(*   "acquire"  the entry of a "with <lock>:" block;                       *)
(*   "release"  the exit of the block (by its end, a return or a raise);   *)
(*   "block"    a call that blocks: time.sleep, asyncio.sleep, or the      *)
(*              request callable (the network call);                       *)
(* and to the statements that can follow.                                  *)
(***************************************************************************)
Stmt(op, lock, next) == [op |-> op, lock |-> lock, next |-> next]

\* a faulty wait_if_needed that sleeps inside its first "with self.lock:"
\* block: C23 tells it from the code
WaitIfNeededSleepsLocked(ret, err) ==
    "wait" :> Stmt("acquire", "lock", {"wait_sleep"})
    @@ "wait_sleep" :> Stmt("block", "", {"wait_locked"})
    @@ "wait_locked" :> Stmt("release", "lock", {"wait_reset"} \cup err)
    @@ "wait_reset" :> Stmt("acquire", "lock", {"wait_reset_locked"})
    @@ "wait_reset_locked" :> Stmt("release", "lock", ret)

\* wait_if_needed: the wait is computed under the lock; the block is left by
\* its end or by the raise; time.sleep; the lazy reset under the lock
WaitIfNeededStmts(ret, err) ==
    "wait" :> Stmt("acquire", "lock", {"wait_locked"})
    @@ "wait_locked" :> Stmt("release", "lock", {"wait_sleep"} \cup err)
    @@ "wait_sleep" :> Stmt("block", "", {"wait_reset"})
    @@ "wait_reset" :> Stmt("acquire", "lock", {"wait_reset_locked"})
    @@ "wait_reset_locked" :> Stmt("release", "lock", ret)

\* can_proceed, then the statement that follows either verdict
CanProceedStmts(yes, no) ==
    "can_proceed" :> Stmt("acquire", "lock", {"can_proceed_locked"})
    @@ "can_proceed_locked" :> Stmt("release", "lock", {yes, no})

\* one "with <lock>:" block
WithStmts(at, lock, next) ==
    at :> Stmt("acquire", lock, {at \o "_locked"})
    @@ (at \o "_locked") :> Stmt("release", lock, next)

\* process_queue / _process_sync / _handle_request_error_sync
SyncProgram ==
    "idle" :> Stmt("call", "", {"has_pending"})
    @@ WithStmts("has_pending", "_sync_lock", {"pop", "idle"})
    @@ WithStmts("pop", "_sync_lock", {"can_proceed", "tick_sleep"})
    @@ CanProceedStmts("wait", "requeue")
    @@ WithStmts("requeue", "_sync_lock", {"tick_sleep"})
    @@ WaitIfNeededStmts({"callable"}, {"failed"})
    @@ "callable" :> Stmt("block", "", {"processed", "failed"})
    @@ WithStmts("processed", "_sync_lock", {"tick_sleep"})
    @@ WithStmts("failed", "_sync_lock", {"retry", "idle"})
    @@ WithStmts("retry", "_sync_lock", {"tick_sleep"})
    @@ "tick_sleep" :> Stmt("block", "", {"has_pending"})

\* _process_queue_async / _process_priority_queue / _execute_request /
\* _handle_request_error
LoopProgram ==
    "idle" :> Stmt("call", "", {"pop"})
    @@ WithStmts("pop", "_async_lock", {"can_proceed", "pop", "tick_sleep"})
    @@ CanProceedStmts("wait", "requeue")
    @@ WithStmts("requeue", "_async_lock", {"pop", "tick_sleep"})
    @@ WaitIfNeededStmts({"callable"}, {"failed"})
    @@ "callable" :> Stmt("block", "", {"processed", "failed"})
    @@ WithStmts("processed", "_async_lock", {"pop", "tick_sleep"})
    @@ WithStmts("failed", "_async_lock", {"retry", "error_sleep"})
    @@ WithStmts("retry", "_async_lock", {"pop", "tick_sleep"})
    @@ "tick_sleep" :> Stmt("block", "", {"pop", "idle"})
    @@ "error_sleep" :> Stmt("block", "", {"pop", "idle"})

\* a thread that calls wait_if_needed or update_from_headers on the tracker
CallerProgram ==
    "idle" :> Stmt("call", "", {"wait", "update"})
    @@ WaitIfNeededStmts({"idle"}, {"idle"})
    @@ WithStmts("update", "lock", {"idle"})

Program(t) ==
    CASE t = "loop" -> LoopProgram
      [] t = "sync" -> SyncProgram
      [] t = "caller" -> CallerProgram

At(t) == Program(t)[pc[t]]

LocksOnly ==
    /\ QueueManagerIdle
    /\ UNCHANGED <<rl, last_update, call, ingested, registry, fetch, gen>>

\* thread t calls in
ThreadCalls(t) ==
    /\ At(t).op = "call"
    /\ \E n \in At(t).next : pc' = [pc EXCEPT ![t] = n]
    /\ event' = Event("call", NoId, NoError, t)
    /\ UNCHANGED held
    /\ LocksOnly

\* thread t enters a "with" block: it goes on only when the lock is free
Acquire(t) ==
    /\ At(t).op = "acquire"
    /\ held[At(t).lock] = NoThread
    /\ held' = [held EXCEPT ![At(t).lock] = t]
    /\ \E n \in At(t).next : pc' = [pc EXCEPT ![t] = n]
    /\ event' = Event("acquire", NoId, NoError, t)
    /\ LocksOnly

\* thread t leaves the "with" block
Release(t) ==
    /\ At(t).op = "release"
    /\ held' = [held EXCEPT ![At(t).lock] = NoThread]
    /\ \E n \in At(t).next : pc' = [pc EXCEPT ![t] = n]
    /\ event' = Event("release", NoId, NoError, t)
    /\ LocksOnly

\* the blocking call thread t is in returns
Unblock(t) ==
    /\ At(t).op = "block"
    /\ \E n \in At(t).next : pc' = [pc EXCEPT ![t] = n]
    /\ event' = Event("unblock", NoId, NoError, t)
    /\ UNCHANGED held
    /\ LocksOnly

LockNext ==
    \E t \in Threads :
        \/ ThreadCalls(t)
        \/ Acquire(t)
        \/ Release(t)
        \/ Unblock(t)

LockSpec == Init /\ [][LockNext]_vars

(***************************************************************************)
(* The registry.  A thread is left between any two statements of           *)
(* _fetch_models and of the lookups: the registry has no lock.  A call     *)
(* begins with its first statement.  A lookup is one of the three          *)
(* operations that call _fetch_models and then read the table; which one,  *)
(* and for which model, is chosen where the table is read.                 *)
(***************************************************************************)
PopulateOps == {"_fetch_models", "refresh_models"}
LookupOps == {"is_model_supported", "list_models", "get_model_info"}
LookupModels == {"llama-3.1-8b", "gemma2-9b"}

RegistryOnly ==
    /\ QueueManagerIdle
    /\ UNCHANGED <<rl, last_update, call, ingested, pc, held, gen>>

\* the thread returns from _fetch_models: a lookup goes on to read the
\* table, refresh_models and _fetch_models are over
AfterFetch(f) ==
    IF f.op = "lookup" THEN [NoFetch EXCEPT !.op = "lookup", !.at = "read"]
    ELSE NoFetch

\* refresh_models(): "self._last_fetch = 0"
ClearStamp(t) ==
    /\ fetch[t].at = "idle"
    /\ registry' = [registry EXCEPT !.last_fetch = NeverFetched]
    /\ fetch' = [fetch EXCEPT ![t] = [NoFetch EXCEPT !.op = "refresh_models",
                                                     !.at = "check",
                                                     !.before = registry.models]]
    /\ event' = Event("clear_stamp", NoId, NoError, t)
    /\ RegistryOnly

\* _fetch_models up to the cache check, called by op (or, for
\* refresh_models, the call that follows the clearing of the stamp); without
\* an API key it returns at once
CacheCheck(t, ops) ==
    /\ \/ fetch[t].at = "check"
       \/ fetch[t].at = "idle"
    /\ \E op \in IF fetch[t].at = "check" THEN {fetch[t].op}
                  ELSE ops \ {"refresh_models"} :
         LET f == [NoFetch EXCEPT
                     !.op = op,
                     !.before = IF fetch[t].at = "check"
                                THEN fetch[t].before ELSE registry.models]
         IN  fetch' = [fetch EXCEPT ![t] =
                         IF \/ ~registry.api_key
                            \/ CacheValid(registry.last_fetch)
                         THEN AfterFetch(f)
                         ELSE [f EXCEPT !.at = "get"]]
    /\ event' = Event(IF registry.api_key THEN "cache_check"
                      ELSE "no_api_key", NoId, NoError, t)
    /\ UNCHANGED registry
    /\ RegistryOnly

\* requests.get, the status check and response.json()
CatalogReadFrom(t, responses) ==
    /\ fetch[t].at = "get"
    /\ \E r \in responses :
         IF r.kind \in {"transport_error", "status_500", "undecodable"}
         THEN /\ fetch' = [fetch EXCEPT ![t] = AfterFetch(fetch[t])]
              /\ event' = Event("populate_failed", NoId, NoError, t)
         ELSE /\ fetch' = [fetch EXCEPT ![t].at = "clear", ![t].body = r]
              /\ event' = Event("catalog_read", NoId, NoError, t)
    /\ UNCHANGED registry
    /\ RegistryOnly

CatalogRead(t) == CatalogReadFrom(t, Responses)

\* "self._models.clear()" and "models_data.get('data', [])"
ClearTable(t) ==
    /\ fetch[t].at = "clear"
    /\ registry' = [registry EXCEPT !.models = EmptyTable]
    /\ IF fetch[t].body.kind = "not_an_object"
       THEN /\ fetch' = [fetch EXCEPT ![t] = AfterFetch(fetch[t])]
            /\ event' = Event("populate_failed", NoId, NoError, t)
       ELSE /\ fetch' = [fetch EXCEPT
                           ![t].at = IF fetch[t].body.data = <<>>
                                     THEN "stamp" ELSE "entry",
                           ![t].next = 1]
            /\ event' = Event("clear", NoId, NoError, t)
    /\ RegistryOnly

\* one turn of "for model in ...": model.get raises on an entry that is not
\* an object
ProcessEntry(t) ==
    /\ fetch[t].at = "entry"
    /\ LET e == fetch[t].body.data[fetch[t].next]
       IN  IF ~e.object
           THEN /\ fetch' = [fetch EXCEPT ![t] = AfterFetch(fetch[t])]
                /\ event' = Event("populate_failed", NoId, NoError, t)
                /\ UNCHANGED registry
           ELSE /\ registry' = [registry EXCEPT
                                  !.models = StoreEntry(registry.models, e)]
                /\ fetch' = [fetch EXCEPT
                               ![t].at = IF fetch[t].next
                                            = Len(fetch[t].body.data)
                                         THEN "stamp" ELSE "entry",
                               ![t].next = @ + 1]
                /\ event' = Event("entry", NoId, NoError, t)
    /\ RegistryOnly

\* "self._last_fetch = current_time"
StampFetch(t) ==
    /\ fetch[t].at = "stamp"
    /\ registry' = [registry EXCEPT
                      !.last_fetch = [set |-> TRUE, age |-> fetch[t].since]]
    /\ fetch' = [fetch EXCEPT ![t] = AfterFetch(fetch[t])]
    /\ event' = Event("populated", NoId, NoError, t)
    /\ RegistryOnly

\* the lookup reads the table: "model in self._models",
\* "list(self._models.keys())", "model not in self._models"
LookupRead(t) ==
    /\ fetch[t].at = "read"
    /\ \E op \in LookupOps :
         \E m \in IF op = "list_models" THEN {""} ELSE LookupModels :
           /\ fetch' = [fetch EXCEPT ![t] =
                          IF op = "get_model_info"
                             /\ m \in DOMAIN registry.models
                          THEN [NoFetch EXCEPT !.op = op, !.model = m,
                                          !.at = "getitem"]
                          ELSE NoFetch]
           /\ event' = Event(op, NoId, NoError, t)
    /\ UNCHANGED registry
    /\ RegistryOnly

\* get_model_info: "return self._models[model].copy()", a KeyError when the
\* model is no longer in the table
GetItem(t) ==
    /\ fetch[t].at = "getitem"
    /\ fetch' = [fetch EXCEPT ![t] = NoFetch]
    /\ event' = Event(IF fetch[t].model \in DOMAIN registry.models
                      THEN "getitem" ELSE "KeyError", NoId, NoError, t)
    /\ UNCHANGED registry
    /\ RegistryOnly

\* the clock advances by half the fetch interval
RegistryTick ==
    /\ registry' = [registry EXCEPT
                      !.last_fetch = AgeFetch(@, FETCH_INTERVAL_SECONDS \div 2)]
    /\ fetch' = [t \in RegistryThreads |->
                   IF fetch[t].at \in {"idle", "check"} THEN fetch[t]
                   ELSE [fetch[t] EXCEPT
                           !.since = Min(FETCH_INTERVAL_SECONDS,
                                         @ + FETCH_INTERVAL_SECONDS \div 2)]]
    /\ event' = Event("tick", NoId, NoError, "")
    /\ RegistryOnly

\* one thread uses the registry
RegistryNext ==
    \/ ClearStamp("r1")
    \/ CacheCheck("r1", PopulateOps \cup {"lookup"})
    \/ CatalogRead("r1")
    \/ ClearTable("r1")
    \/ ProcessEntry("r1")
    \/ StampFetch("r1")
    \/ LookupRead("r1")
    \/ GetItem("r1")
    \/ RegistryTick

RegistrySpec == RegistryInit /\ [][RegistryNext]_vars

\* thread r1 populates while thread r2 looks models up
Populator(t) ==
    \/ ClearStamp(t)
    \/ CacheCheck(t, PopulateOps)
    \/ CatalogRead(t)
    \/ ClearTable(t)
    \/ ProcessEntry(t)
    \/ StampFetch(t)

Reader(t) ==
    \/ CacheCheck(t, {"lookup"})
    \/ CatalogRead(t)
    \/ ClearTable(t)
    \/ ProcessEntry(t)
    \/ StampFetch(t)
    \/ LookupRead(t)
    \/ GetItem(t)

RegistrySwapNext ==
    \/ Populator("r1")
    \/ Reader("r2")
    \/ RegistryTick

RegistrySwapSpec == RegistryInit /\ [][RegistrySwapNext]_vars

(***************************************************************************)
(* The handlers.  TextGenerationHandler.generate and                       *)
(* SpeechToTextHandler.transcribe, called by thread t with arguments that  *)
(* pass the checks of the prompt, the messages and the audio file.  Every  *)
(* registry lookup of a call begins with _fetch_models: with a valid cache *)
(* it reads the table at once, otherwise the thread goes through the       *)
(* statements of _fetch_models first.  The token count of the messages and *)
(* the estimated duration of the file are arguments of the model.  A call  *)
(* is left between its lookups, before the transport request and while     *)
(* the transport request is under way.                                     *)
(***************************************************************************)
\* model.get("context_window") of a catalog entry without that key
None == -1

HandlerCatalog ==
    << CatalogEntry("llama-3.1-8b", TRUE, 100),
       CatalogEntry("Whisper-Tiny", TRUE, 448),
       CatalogEntry("gemma2-9b", TRUE, None) >>

\* what the catalog service answers while generate runs: the catalog, a
\* later catalog from which a model was withdrawn, a body that is not an
\* object, no answer
HandlerResponses ==
    { Response("catalog", HandlerCatalog),
      Response("catalog", << CatalogEntry("gemma2-9b", TRUE, None) >>),
      Response("not_an_object", <<>>),
      Response("transport_error", <<>>) }

GenerateModels == {"llama-3.1-8b", "Whisper-Tiny", "gemma2-9b", "mixtral-8x7b"}
CountedTokens == {80, 90}
MaxTokensArgs == {10, 20}
AudioSeconds == {10}

InvalidModel == Exc("InvalidModel", <<>>, "none", "none")
TokenLimitExceeded(requested_tokens, max_tokens) ==
    Exc("TokenLimitExceeded", <<requested_tokens, max_tokens>>, "none", "none")
\* "except Exception as e: raise TextGenerationError(model, f'...: {str(e)}')"
TextGenerationError(e) == Exc("TextGenerationError", <<>>, "none", e.type)
\* "except Exception as e: raise SpeechToTextError(..., f'...: {str(e)}')"
SpeechToTextError(e) == Exc("SpeechToTextError", <<>>, "none", e.type)
\* what the transport raises for a response that is not 2xx
GroqAPIError == Exc("GroqAPIError", <<>>, "none", "none")

\* the statements of a call that look the model up in the registry:
\* generate 64 and 68; count_message_tokens 148 and 152, called by
\* _check_token_limits; get_max_tokens, called by _check_token_limits;
\* count_message_tokens 148 and 152 again, called by _check_rate_limits
LookupStages ==
    {"supported", "type", "count_supported", "count_type", "max_tokens",
     "rate_supported", "rate_type"}

\* a faulty token check that compares the counted input tokens alone with
\* the window: C31 tells it from the code
check_input_tokens(current_tokens, max_tokens, model_max_tokens) ==
    IF model_max_tokens # None /\ current_tokens > model_max_tokens
    THEN TokenLimitExceeded(current_tokens, model_max_tokens)
    ELSE NoError

\* _check_token_limits from "if model_max_tokens is None" on: what it raises
check_token_limits(current_tokens, max_tokens, model_max_tokens) ==
    LET total_tokens == current_tokens + max_tokens
    IN  IF model_max_tokens # None /\ total_tokens > model_max_tokens
        THEN TokenLimitExceeded(total_tokens, model_max_tokens)
        ELSE NoError

\* the error the handler wraps what its rate check raises in
HandlerError(op, e) ==
    IF op = "generate" THEN TextGenerationError(e) ELSE SpeechToTextError(e)

HandlersOnly ==
    /\ QueueManagerIdle
    /\ UNCHANGED <<last_update, call, ingested, pc, held>>

\* the call is over: it returned or raised
Finish(t, kind, raised) ==
    /\ gen' = [gen EXCEPT ![t] = NoGenerate]
    /\ event' = Event(kind, NoId, raised, t)

\* generate(model, messages, max_tokens=...) is called
GenerateCall(t) ==
    /\ gen[t].at = "idle"
    /\ fetch[t].at = "idle"
    /\ \E model \in GenerateModels, counted \in CountedTokens,
          max_tokens \in MaxTokensArgs :
         gen' = [gen EXCEPT ![t] =
                   [NoGenerate EXCEPT !.op = "generate", !.at = "supported",
                                      !.model = model, !.counted = counted,
                                      !.max_tokens = max_tokens]]
    /\ event' = Event("generate", NoId, NoError, t)
    /\ UNCHANGED <<rl, registry, fetch>>
    /\ HandlersOnly

\* transcribe(file, model) is called
TranscribeCall(t) ==
    /\ gen[t].at = "idle"
    /\ fetch[t].at = "idle"
    /\ \E model \in {"llama-3.1-8b", "Whisper-Tiny"}, audio \in AudioSeconds :
         gen' = [gen EXCEPT ![t] =
                   [NoGenerate EXCEPT !.op = "transcribe", !.at = "supported",
                                      !.model = model, !.audio = audio]]
    /\ event' = Event("transcribe", NoId, NoError, t)
    /\ UNCHANGED <<rl, registry, fetch>>
    /\ HandlersOnly

\* a lookup finds the cache stale and goes on to read the catalog
HandlerFetch(t) ==
    /\ gen[t].at \in LookupStages
    /\ fetch[t].at = "idle"
    /\ registry.api_key
    /\ ~CacheValid(registry.last_fetch)
    /\ CacheCheck(t, {"lookup"})

\* the statements of _fetch_models, in a lookup of a handler
HandlerPopulate(t) ==
    /\ gen[t].at \in LookupStages
    /\ \/ CatalogReadFrom(t, HandlerResponses)
       \/ ClearTable(t)
       \/ ProcessEntry(t)
       \/ StampFetch(t)

\* A lookup reads the table, after _fetch_models or with a valid cache, and
\* the call goes on to its next lookup or is over with an exception.
\* Exceptions of the lookups of generate itself leave as they are, those of
\* _check_token_limits and _check_rate_limits as TextGenerationError (but
\* TokenLimitExceeded, which is raised again).
HandlerLookup(t) ==
    /\ gen[t].at \in LookupStages
    /\ \/ fetch[t].at = "read"
       \/ /\ fetch[t].at = "idle"
          /\ ~registry.api_key \/ CacheValid(registry.last_fetch)
    /\ LET g == gen[t]
           present == g.model \in DOMAIN registry.models
           info == registry.models[g.model]
           wanted == IF g.op = "generate" THEN "chat" ELSE "stt"
           go(at) == /\ gen' = [gen EXCEPT ![t].at = at]
                     /\ event' = Event("lookup", NoId, NoError, t)
           checked == check_token_limits(g.counted, g.max_tokens,
                                         info.max_tokens)
       IN  CASE g.at = "supported" ->
                  IF present THEN go("type")
                  ELSE Finish(t, "rejected", InvalidModel)
             [] g.at = "type" ->
                  IF ~present \/ info.type # wanted
                  THEN Finish(t, "rejected", InvalidModel)
                  ELSE go(IF g.op = "generate" THEN "count_supported"
                          ELSE "can_proceed")
             [] g.at \in {"count_supported", "count_type"} ->
                  IF ~present
                  THEN Finish(t, "rejected", TextGenerationError(InvalidModel))
                  ELSE go(IF g.at = "count_supported" THEN "count_type"
                          ELSE "max_tokens")
             [] g.at = "max_tokens" ->
                  IF ~present
                  THEN Finish(t, "rejected", TextGenerationError(InvalidModel))
                  ELSE IF checked # NoError
                  THEN Finish(t, "rejected", checked)
                  ELSE go("rate_supported")
             [] g.at \in {"rate_supported", "rate_type"} ->
                  IF ~present
                  THEN Finish(t, "rejected", TextGenerationError(InvalidModel))
                  ELSE go(IF g.at = "rate_supported" THEN "rate_type"
                          ELSE "can_proceed")
    /\ fetch' = [fetch EXCEPT ![t] = NoFetch]
    /\ UNCHANGED <<rl, registry>>
    /\ HandlersOnly

\* the amounts the handler asks can_proceed for: <<tokens, requests,
\* audio_seconds>>
Amounts(g) ==
    IF g.op = "generate" THEN <<g.counted, 1, 0>> ELSE <<0, 1, g.audio>>

\* no call counts as admitted any longer: headers were ingested or a reset
\* deadline passed
NoneAdmitted(gs) == [u \in DOMAIN gs |-> [gs[u] EXCEPT !.admitted = FALSE]]

\* _check_rate_limits: "if not self.rate_limit_handler.can_proceed(...)"
HandlerCanProceed(t) ==
    /\ gen[t].at = "can_proceed"
    /\ LET a == Amounts(gen[t])
           yes == CanProceed(rl, a[1], a[2], a[3])
           gs == IF LazyReset(rl) = rl THEN gen ELSE NoneAdmitted(gen)
       IN  /\ rl' = LazyReset(rl)
           /\ gen' = [gs EXCEPT ![t].at = IF yes THEN "send" ELSE "wait",
                                ![t].admitted = yes]
           /\ event' = Event("can_proceed", NoId, NoError, t)
    /\ UNCHANGED <<registry, fetch>>
    /\ HandlersOnly

\* _check_rate_limits: "self.rate_limit_handler.wait_if_needed()", and no
\* second can_proceed after it
HandlerWait(t) ==
    /\ gen[t].at = "wait"
    /\ IF WaitRaises(rl)
       THEN /\ Finish(t, "rejected", HandlerError(gen[t].op, WaitError(rl)))
            /\ UNCHANGED rl
       ELSE /\ rl' = WaitIfNeeded(rl)
            /\ gen' = [NoneAdmitted(gen) EXCEPT ![t].at = "send"]
            /\ event' = Event("waited", NoId, NoError, t)
    /\ UNCHANGED <<registry, fetch>>
    /\ HandlersOnly

\* api_client.post / post_multipart: the request goes to the transport
HandlerSend(t) ==
    /\ gen[t].at = "send"
    /\ gen' = [gen EXCEPT ![t].at = "sent"]
    /\ event' = Event("send", NoId, NoError, t)
    /\ UNCHANGED <<rl, registry, fetch>>
    /\ HandlersOnly

\* the headers handle_response puts in '_headers' of a 2xx response: those
\* of the fourteen names of extract_headers that the response carries
ResponseHeaderSets ==
    { WindowHeaders("requests", <<"3">>, <<"1">>, <<"2", "m">>),
      WindowHeaders("tokens", <<"8", "5">>, <<"8", "5">>, <<"1", "m">>),
      [h \in {"content-type"} |-> <<"j">>],
      [h \in {} |-> <<>>] }

\* the transport answers 2xx: the headers are ingested and the response is
\* returned, or what update_from_headers raises leaves the handler
HandlerResponds(t) ==
    /\ gen[t].at = "sent"
    /\ \E headers \in ResponseHeaderSets :
         LET u == UpdateFromHeaders(rl, headers)
         IN  /\ rl' = u.rl
             /\ gen' = [IF u.rl = rl THEN gen ELSE NoneAdmitted(gen)
                          EXCEPT ![t] = NoGenerate]
             /\ event' = Event("response_2xx", NoId, UpdateError(u), t)
    /\ UNCHANGED <<registry, fetch>>
    /\ HandlersOnly

\* the transport raises: the status is not 2xx, the body is not JSON, the
\* connection failed
HandlerTransportRaises(t) ==
    /\ gen[t].at = "sent"
    /\ Finish(t, "transport_raised", GroqAPIError)
    /\ UNCHANGED <<rl, registry, fetch>>
    /\ HandlersOnly

\* the clock advances to a pending reset deadline of the tracker
HandlerTick ==
    /\ \E d \in PendingResets(rl) : rl' = Elapse(rl, d)
    /\ gen' = NoneAdmitted(gen)
    /\ event' = Event("tick", NoId, NoError, "")
    /\ UNCHANGED <<registry, fetch>>
    /\ HandlersOnly

\* generate called by one thread on a client whose registry was made with an
\* API key while the catalog could not be read
GenerateNext ==
    \/ GenerateCall("r1")
    \/ HandlerFetch("r1")
    \/ HandlerPopulate("r1")
    \/ HandlerLookup("r1")
    \/ HandlerCanProceed("r1")
    \/ HandlerWait("r1")
    \/ HandlerSend("r1")
    \/ HandlerResponds("r1")
    \/ HandlerTransportRaises("r1")
    \/ RegistryTick
    \/ HandlerTick

GenerateSpec == Init /\ [][GenerateNext]_vars

\* ModelRegistry.__init__ with an API key and a catalog that could be read
PopulatedRegistry ==
    [models |-> StoreEntries(EmptyTable, HandlerCatalog),
     last_fetch |-> [set |-> TRUE, age |-> 0], api_key |-> TRUE]

HandlerInit ==
    /\ InitExceptRegistry
    /\ registry = PopulatedRegistry

Caller(t) ==
    \/ HandlerLookup(t)
    \/ HandlerCanProceed(t)
    \/ HandlerWait(t)
    \/ HandlerSend(t)
    \/ HandlerResponds(t)
    \/ HandlerTransportRaises(t)

\* one thread calls generate while another calls transcribe, within the
\* hour for which the catalog read at construction is valid
HandlerNext ==
    \/ GenerateCall("r1")
    \/ TranscribeCall("r2")
    \/ Caller("r1")
    \/ Caller("r2")
    \/ HandlerTick

HandlerSpec == HandlerInit /\ [][HandlerNext]_vars

(***************************************************************************)
(* The requests the queue manager holds.                                   *)
(***************************************************************************)
Queued ==
    UNION { {queues[p][i] : i \in 1..Len(queues[p])} : p \in PriorityValues }
InFlight ==
    (IF apc = "exec" THEN {areq} ELSE {})
        \cup (IF spc \in {"admit", "exec"} THEN {sreq} ELSE {})
LiveRequests == Queued \cup InFlight
RequestWithId(id) == CHOOSE r \in LiveRequests : r.id = id
Without(q, id) == SelectSeq(q, LAMBDA x : x.id # id)
PriorityIndex(p) == CHOOSE i \in 1..Len(PriorityOrder) : PriorityOrder[i] = p

(***************************************************************************)
(* C1.  In every reachable state the four priority queues together hold at *)
(* most max_queue_size requests.                                           *)
(***************************************************************************)
C1_QueueWithinCapacity == QueueTotal(queues) <= MaxQueueSize

(***************************************************************************)
(* C2.  An enqueue attempted on a full queue fails with a QueueFullError   *)
(* that carries the current size and the maximum size.                     *)
(***************************************************************************)
C2_FullRaisesQueueFullError ==
    event.kind = "enqueue_full"
        => event.raised = QueueFullError(QueueTotal(queues), MaxQueueSize)

(***************************************************************************)
(* C3.  An enqueue rejected because the queue is full changes nothing: the *)
(* four queues, the request-id counter, the statistics, the processing     *)
(* flag and the workers are as before the call.                            *)
(***************************************************************************)
C3_RejectionChangesNothing ==
    [][event'.kind = "enqueue_full"
         => UNCHANGED <<queues, request_counter, stats, processing, issued,
                        apc, aidx, areq, spc, sreq>>]_vars

C3_Witness ==
    /\ event.kind = "enqueue_full"
    /\ QueueTotal(queues) = MaxQueueSize
    /\ stats.total_queued >= MaxQueueSize

(***************************************************************************)
(* C4.  Strict precedence: whenever a worker selects the request it is     *)
(* about to dispatch, no queue of a higher priority has an admissible      *)
(* request at its head.                                                    *)
(***************************************************************************)
HigherAdmissible(p) ==
    \E i \in 1..(PriorityIndex(p) - 1) :
        /\ queues[PriorityOrder[i]] # <<>>
        /\ CanProceed(rl, Head(queues[PriorityOrder[i]]).tokens_required, 1, 0)

C4_StrictPrecedence ==
    [][(\/ event'.kind = "take"
        \/ event'.kind = "dispatch" /\ apc' = "exec" /\ areq' # areq)
         => ~HigherAdmissible(RequestWithId(event'.id).priority)]_vars

(***************************************************************************)
(* C5.  FIFO within a priority: when the callable of a request B that has  *)
(* never failed is invoked, no request A of the same priority that was     *)
(* enqueued before B and has never failed is still waiting to be invoked.  *)
(***************************************************************************)
Waiting == Queued \cup (IF spc = "admit" THEN {sreq} ELSE {})

C5_FifoWithinPriority ==
    [][event'.kind = "dispatch"
         => LET b == RequestWithId(event'.id)
            IN  b.retry_count = 0
                  => \A a \in Waiting :
                        ~(/\ a.priority = b.priority
                          /\ a.retry_count = 0
                          /\ a.id[2] < b.id[2])]_vars

C7_RetryRequeuesAtTail ==
    [][event'.kind \in {"retry", "exhausted"}
         => LET r == RequestWithId(event'.id)
                p == r.original_priority
                r2 == [r EXCEPT !.retry_count = @ + 1, !.priority = p]
            IN  r.retry_count < r.max_retries
                  => /\ event'.kind = "retry"
                     /\ queues'[p] = Append(Without(queues[p], r.id), r2)
                     /\ \A q \in PriorityValues \ {p} :
                            queues'[q] = Without(queues[q], r.id)
                     /\ stats'.total_retries = stats.total_retries + 1]_vars

C7_Witness ==
    /\ event.kind = "retry"
    /\ \E p \in PriorityValues :
        /\ Len(queues[p]) >= 2
        /\ queues[p][Len(queues[p])].id = event.id
        /\ queues[p][Len(queues[p])].retry_count = 1
        /\ queues[p][Len(queues[p])].original_priority = p

(***************************************************************************)
(* C8.  When a request fails with retry_count equal to max_retries it is   *)
(* not re-queued, and a RetryError carrying max_retries and the last cause *)
(* reaches the caller that drives the queue.                               *)
(***************************************************************************)
C8_RetryErrorSurfaced ==
    event.kind = "exhausted"
        => /\ event.raised.type = "RetryError"
           /\ \A r \in LiveRequests : r.id # event.id

(***************************************************************************)
(* C9.  Every request held has 0 <= retry_count <= max_retries, its        *)
(* original_priority is the priority given at enqueue and never changes,   *)
(* and its callable has been invoked at most max_retries + 1 times.        *)
(***************************************************************************)
C9_RetryBounds ==
    \A r \in LiveRequests :
        /\ 0 <= r.retry_count
        /\ r.retry_count <= r.max_retries
        /\ attempts[r.id[2]].invoked <= r.max_retries + 1

C9_OriginalPriorityFixed ==
    /\ event'.kind = "enqueued"
         => \E r \in Queued' :
                /\ r.id = event'.id
                /\ r.original_priority = PriorityEnum(event'.arg)
                /\ queues'[r.original_priority]
                     = Append(queues[r.original_priority], r)
    /\ \A r \in LiveRequests : \A r2 \in LiveRequests' :
            r2.id = r.id => r2.original_priority = r.original_priority

C9_RequestInvariant ==
    [](C9_RetryBounds) /\ [][C9_OriginalPriorityFixed]_vars

C9_Witness ==
    \E r \in InFlight :
        /\ r.max_retries >= 1
        /\ r.retry_count = r.max_retries
        /\ attempts[r.id[2]].invoked = r.max_retries + 1
        /\ r.original_priority = "urgent"

(***************************************************************************)
(* C10.  For a single enqueued callable that fails k times and then        *)
(* succeeds, with k <= max_retries and no failure caused by the quota,     *)
(* the statistics once it has succeeded are total_retries = k,             *)
(* total_failed = k and total_processed = 1, and the queue is drained.     *)
(***************************************************************************)
C10_RetryStatistics ==
    [][(/\ event'.kind = "processed"
        /\ request_counter = 1
        /\ RequestWithId(event'.id).retry_count = attempts[1].failed)
         => LET k == attempts[1].failed
            IN  /\ stats'.total_retries = k
                /\ stats'.total_failed = k
                /\ stats'.total_processed = 1
                /\ ~HasPendingRequests(queues')]_vars

C10_Witness ==
    /\ event.kind = "processed"
    /\ request_counter = 1
    /\ stats.total_retries = 1
    /\ stats.total_failed = 1
    /\ stats.total_processed = 1
    /\ LiveRequests = {}

(***************************************************************************)
(* get_queue_status: the dict it returns.                                  *)
(***************************************************************************)
get_queue_status ==
    [queue_sizes |-> [p \in PriorityValues |-> Len(queues[p])],
     total_queued |-> QueueTotal(queues),
     stats |-> stats,
     processing |-> processing,
     max_queue_size |-> MaxQueueSize]

(***************************************************************************)
(* C11.  When the admission check fails for the head a worker has taken,   *)
(* the request goes back, unchanged, to the front of its own queue and no  *)
(* statistics counter moves: the step that puts it back undoes the step    *)
(* that took it.                                                           *)
(***************************************************************************)
C11_PushBackRestores ==
    [][/\ event'.kind = "pushback"
            => LET r == RequestWithId(event'.id)
               IN  /\ stats' = stats
                   /\ r.priority = r.original_priority
                   /\ Head(queues'[r.priority]) = r
                   /\ IF r \in Queued
                      THEN queues' = queues
                      ELSE queues' = [queues EXCEPT
                                        ![r.priority] = <<r>> \o @]
       /\ event'.kind = "take"
            => queues = [queues' EXCEPT
                           ![sreq'.priority] = <<sreq'>> \o @]]_vars

C11_Witness ==
    /\ event.kind = "pushback"
    /\ \E p \in PriorityValues :
        /\ Len(queues[p]) >= 2
        /\ Head(queues[p]).id = event.id
        /\ Head(queues[p]).retry_count = 0

(***************************************************************************)
(* C12.  Head-of-line blocking: a worker selects a request for dispatch    *)
(* only from the highest-priority non-empty queue, so while the head of a  *)
(* higher-priority queue is not admissible nothing else is dispatched.     *)
(***************************************************************************)
HigherBlocked(p) ==
    \E i \in 1..(PriorityIndex(p) - 1) :
        /\ queues[PriorityOrder[i]] # <<>>
        /\ ~CanProceed(rl, Head(queues[PriorityOrder[i]]).tokens_required,
                       1, 0)

C12_HeadOfLineBlocking ==
    [][(\/ event'.kind = "take"
        \/ event'.kind = "dispatch" /\ apc' = "exec" /\ areq' # areq)
         => ~HigherBlocked(RequestWithId(event'.id).priority)]_vars

(***************************************************************************)
(* C13.  stop_processing leaves a callable that is in flight to complete   *)
(* (the worker still holds its request afterwards, so that its outcome is  *)
(* accounted), and the worker takes a request only while the processing    *)
(* flag is set.                                                            *)
(***************************************************************************)
C13_StopKeepsInFlight ==
    [][/\ (event'.kind = "stop" /\ apc = "exec")
            => (apc' = "exec" /\ areq' = areq /\ attempts' = attempts)
       /\ (areq' # areq /\ areq' # NoRequest) => processing]_vars

(***************************************************************************)
(* C14.  stop_processing cancels no pending request: the four queues and   *)
(* the statistics are unchanged and get_queue_status afterwards reports    *)
(* every pending item.                                                     *)
(***************************************************************************)
C14_StopKeepsPending ==
    [][event'.kind = "stop"
         => /\ UNCHANGED <<queues, stats>>
            /\ get_queue_status'.queue_sizes
                 = [p \in PriorityValues |-> Len(queues[p])]
            /\ get_queue_status'.total_queued = QueueTotal(queues)
            /\ get_queue_status'.stats = stats
            /\ get_queue_status'.processing = FALSE]_vars

C14_Witness ==
    /\ event.kind = "stop"
    /\ ~processing
    /\ QueueTotal(queues) >= 1
    /\ get_queue_status.total_queued >= 1

(***************************************************************************)
(* C15.  enqueue with a priority string that is none of low, normal, high, *)
(* urgent (in any case) is accepted: the request is appended to the normal *)
(* queue with priority = original_priority = normal, and the only error    *)
(* enqueue lets out is that of a full queue.                               *)
(***************************************************************************)
C15_UnknownPriorityIsNormal ==
    [][/\ (event'.kind = "enqueued" /\ Lower(event'.arg) \notin PriorityValues)
            => /\ event'.raised = NoError
               /\ Len(queues'["normal"]) = Len(queues["normal"]) + 1
               /\ LET r == queues'["normal"][Len(queues'["normal"])]
                  IN  /\ r.id = event'.id
                      /\ r.priority = "normal"
                      /\ r.original_priority = "normal"
               /\ \A p \in PriorityValues \ {"normal"} :
                      queues'[p] = queues[p]
       /\ event'.kind = "enqueue_full"
            => QueueTotal(queues) >= MaxQueueSize]_vars

C15_Witness ==
    /\ event.kind = "enqueued"
    /\ event.arg = "unknown-value"
    /\ queues["normal"] # <<>>
    /\ queues["normal"][Len(queues["normal"])].id = event.id
    /\ queues["normal"][Len(queues["normal"])].original_priority = "normal"

(***************************************************************************)
(* The three quota windows of the tracker, by the prefix of their fields.  *)
(***************************************************************************)
Windows == {"request", "token", "audio_seconds"}
Limit(t, w) == t[w \o "_limit"]
Remaining(t, w) == t[w \o "_remaining"]
ResetArmed(t, w) == t[w \o "_reset_armed"]
ResetIn(t, w) == t[w \o "_reset_in"]

\* the deadline of window w is set and has passed
DeadlinePassed(t, w) == ResetArmed(t, w) /\ ResetIn(t, w) = 0

\* the amount can_proceed(tokens, requests, audio_seconds) asks of window w
Requested(args, w) ==
    CASE w = "token" -> args[1] [] w = "request" -> args[2]
      [] w = "audio_seconds" -> args[3]

(***************************************************************************)
(* C16.  In every state of the tracker, each of the three windows has      *)
(* 0 <= remaining <= limit.                                                *)
(***************************************************************************)
C16_RemainingWithinLimit ==
    \A w \in Windows :
        0 <= Remaining(rl, w) /\ Remaining(rl, w) <= Limit(rl, w)

(***************************************************************************)
(* C17.  can_proceed returns true exactly when, after the lazy reset of    *)
(* the windows whose deadline has passed, every window with limit > 0 has  *)
(* remaining >= the amount asked of it; a window with limit = 0 never      *)
(* makes it return false.                                                  *)
(***************************************************************************)
C17_CanProceedIff ==
    [][event'.kind = "can_proceed"
         => /\ \A w \in Windows :
                 IF DeadlinePassed(rl, w)
                 THEN /\ Remaining(rl', w) = Limit(rl, w)
                      /\ ~ResetArmed(rl', w)
                      /\ Limit(rl', w) = Limit(rl, w)
                 ELSE /\ Remaining(rl', w) = Remaining(rl, w)
                      /\ ResetArmed(rl', w) = ResetArmed(rl, w)
                      /\ Limit(rl', w) = Limit(rl, w)
            /\ call'.result
                 = (\A w \in Windows :
                      Limit(rl', w) > 0
                        => Remaining(rl', w) >= Requested(call'.args, w))]_vars

C17_Witness ==
    /\ event.kind = "can_proceed"
    /\ ~call.result
    /\ rl.request_limit > 0
    /\ rl.request_remaining < call.args[2]
    /\ rl.token_limit = 0
    /\ call.args[1] > 0

(***************************************************************************)
(* C18.  With a requests window of limit L > 0 and remaining 0 whose reset *)
(* deadline is still ahead, can_proceed(requests >= 1) returns false; once *)
(* the deadline has passed, can_proceed(requests = L) returns true and     *)
(* leaves remaining = L and no reset deadline.                             *)
(***************************************************************************)
C18_LazyReset ==
    [][event'.kind = "can_proceed" /\ rl.request_limit > 0
         => /\ (/\ rl.request_remaining = 0
                /\ rl.request_reset_armed /\ rl.request_reset_in > 0
                /\ call'.args[2] >= 1)
                 => ~call'.result
            /\ (/\ DeadlinePassed(rl, "request")
                /\ call'.args = <<0, rl.request_limit, 0>>)
                 => /\ call'.result
                    /\ rl'.request_remaining = rl.request_limit
                    /\ ~rl'.request_reset_armed]_vars

C18_Witness ==
    /\ event.kind = "can_proceed"
    /\ call.result
    /\ call.args = <<0, MaxHeaderInt, 0>>
    /\ rl.request_limit = MaxHeaderInt
    /\ rl.request_remaining = MaxHeaderInt
    /\ ~rl.request_reset_armed
    /\ last_update.set /\ last_update.age >= 2 * MS_PER_SECOND

(***************************************************************************)
(* C19.  Whenever can_proceed, get_status, wait_if_needed or               *)
(* refresh_if_needed clears the reset deadline of a window, it also        *)
(* restores that window's remaining to its limit.                          *)
(***************************************************************************)
C19_ClearRestores ==
    [][event'.kind \in {"can_proceed", "get_status", "wait_if_needed",
                        "refresh_if_needed"}
         => \A w \in Windows :
                (ResetArmed(rl, w) /\ ~ResetArmed(rl', w))
                  => Remaining(rl', w) = Limit(rl', w)]_vars

(***************************************************************************)
(* C20.  When wait_if_needed returns without error, every window whose     *)
(* reset deadline was set has seen it pass during the sleep: its remaining *)
(* equals its limit and it has no reset deadline; the other windows are    *)
(* as before.                                                              *)
(***************************************************************************)
C20_WaitResets ==
    [][(event'.kind = "wait_if_needed" /\ event'.raised = NoError)
         => \A w \in Windows :
                /\ ~ResetArmed(rl', w)
                /\ Limit(rl', w) = Limit(rl, w)
                /\ Remaining(rl', w)
                     = IF ResetArmed(rl, w) THEN Limit(rl, w)
                       ELSE Remaining(rl, w)]_vars

C20_Witness ==
    /\ event.kind = "wait_if_needed"
    /\ event.raised = NoError
    /\ rl.request_limit > 0
    /\ rl.request_remaining = rl.request_limit
    /\ ~rl.request_reset_armed
    /\ last_update.set
    /\ last_update.age > DEFAULT_WAIT_SECONDS * MS_PER_SECOND
    /\ call.slept > DEFAULT_WAIT_SECONDS * MS_PER_SECOND

(***************************************************************************)
(* C21.  When wait_if_needed sleeps, it sleeps for the largest of the      *)
(* times left to the reset deadlines that are still ahead, and for the     *)
(* default 60 s when no deadline is ahead.                                 *)
(***************************************************************************)
PendingWaits(t) ==
    { ResetIn(t, w) : w \in { x \in Windows : ResetArmed(t, x)
                                                /\ ResetIn(t, x) > 0 } }

C21_SleepIsMaxPending ==
    [][(event'.kind = "wait_if_needed" /\ event'.raised = NoError)
         => /\ PendingWaits(rl) = {}
                 => call'.slept = DEFAULT_WAIT_SECONDS * MS_PER_SECOND
            /\ PendingWaits(rl) # {}
                 => /\ call'.slept \in PendingWaits(rl)
                    /\ \A d \in PendingWaits(rl) : d <= call'.slept]_vars

C21_Witness ==
    /\ event.kind = "wait_if_needed"
    /\ event.raised = NoError
    /\ call.slept = 2 * DEFAULT_WAIT_SECONDS * MS_PER_SECOND
    /\ last_update.age = call.slept
    /\ rl.request_limit > 0
    /\ rl.token_limit > 0
    /\ rl.token_remaining = rl.token_limit

(***************************************************************************)
(* C22.  When the wait that wait_if_needed computes exceeds 300 s, the     *)
(* call raises RateLimitExceeded carrying the wait time, does not sleep    *)
(* and changes no quota window.                                            *)
(***************************************************************************)
C22_WaitTooLongRaises ==
    [][(/\ event'.kind = "wait_if_needed"
        /\ \E d \in PendingWaits(rl) : d > MAX_WAIT_SECONDS * MS_PER_SECOND)
         => /\ event'.raised.type = "RateLimitExceeded"
            /\ call'.slept = 0
            /\ rl' = rl]_vars

(***************************************************************************)
(* C23.  A thread that is sleeping in wait_if_needed, sleeping between two *)
(* worker rounds, or executing a request callable holds neither the        *)
(* tracker lock nor a queue lock.                                          *)
(***************************************************************************)
C23_NoLockWhileBlocked ==
    \A t \in Threads :
        At(t).op = "block" => \A l \in Locks : held[l] # t

C23_Witness ==
    /\ pc["sync"] = "wait_sleep"
    /\ pc["loop"] = "callable"
    /\ held["lock"] = "caller"
    /\ held["_sync_lock"] = NoThread
    /\ held["_async_lock"] = NoThread

(***************************************************************************)
(* C24.  An ingestion that succeeds calls _on_limits_changed once when it  *)
(* changed the request limit or the token limit, with the old and the new  *)
(* value of both, and does not call it otherwise.                          *)
(***************************************************************************)
C24_HookOnLimitChange ==
    [][(event'.kind = "update_from_headers" /\ event'.raised = NoError)
         => IF \/ rl'.request_limit # rl.request_limit
               \/ rl'.token_limit # rl.token_limit
            THEN /\ Len(call'.hook) = 1
                 /\ call'.hook[1].old_request_limit = rl.request_limit
                 /\ call'.hook[1].new_request_limit = rl'.request_limit
                 /\ call'.hook[1].old_token_limit = rl.token_limit
                 /\ call'.hook[1].new_token_limit = rl'.token_limit
            ELSE call'.hook = <<>>]_vars

C24_Witness ==
    /\ event.kind = "update_from_headers"
    /\ event.raised = NoError
    /\ Len(call.hook) = 1
    /\ call.hook[1].token_limit_changed
    /\ ~call.hook[1].request_limit_changed
    /\ call.hook[1].old_token_limit = 0
    /\ call.hook[1].new_token_limit = rl.token_limit
    /\ call.hook[1].old_request_limit = rl.request_limit
    /\ rl.request_limit > 0

(***************************************************************************)
(* C25.  On a fresh tracker, after the ingestion of (limit 100, remaining  *)
(* 100, reset 60s) and then of (limit 200, remaining 180, reset 30s),      *)
(* can_proceed(requests=190) called before the deadline returns true.      *)
(* AfterScenarioIngestions is the tracker those two ingestions leave, up   *)
(* to the time that has passed since the second.                           *)
(***************************************************************************)
AfterScenarioIngestions ==
    /\ rl.request_reset_in > 0
    /\ rl = [RateLimitInit EXCEPT !.request_limit = 200,
                                  !.request_remaining = 180,
                                  !.request_reset_armed = TRUE,
                                  !.request_reset_in = rl.request_reset_in]
    /\ last_update.set
    /\ last_update.age + rl.request_reset_in = 30 * MS_PER_SECOND

C25_ScenarioAdmits190 ==
    [][(/\ AfterScenarioIngestions
        /\ event'.kind = "can_proceed"
        /\ call'.args = <<0, 190, 0>>)
         => call'.result]_vars

\* C25 as amended: the call returns false, 190 being more than the 180
\* that remain.
C25_ScenarioRefuses190 ==
    [][(/\ AfterScenarioIngestions
        /\ event'.kind = "can_proceed"
        /\ call'.args = <<0, 190, 0>>)
         => ~call'.result]_vars

C25_Witness ==
    /\ AfterScenarioIngestions
    /\ event.kind = "can_proceed"
    /\ call.args = <<0, 190, 0>>
    /\ ~call.result

(***************************************************************************)
(* C26.  When the value of a limit or remaining header does not parse as   *)
(* an integer, update_from_headers fails with a validation error that      *)
(* names the header, and the field of that header keeps the value it had   *)
(* before the call.                                                        *)
(***************************************************************************)
IntHeaderField(h) ==
    (CHOOSE i \in 1..Len(HeaderFields) : HeaderFields[i].hdr = h)

C26_ParseFailureIsValidationError ==
    [][(/\ event'.kind = "update_from_headers"
        /\ \E i \in 1..Len(HeaderFields) :
              HeaderFields[i].kind = "int" /\ HeaderFields[i].hdr = event'.arg)
         => /\ event'.raised.type = "ValidationError"
            /\ LET f == HeaderFields[IntHeaderField(event'.arg)].field
               IN  rl'[f] = rl[f]]_vars

(***************************************************************************)
(* C27.  needs_refresh returns true when no header set has been ingested,  *)
(* or a reset deadline is near, or the last ingestion is old, and only     *)
(* then.  Stated here is what the claim draws from it: as long as no       *)
(* header set has been ingested, needs_refresh returns true, whatever else *)
(* was called on the tracker.                                              *)
(***************************************************************************)
C27_NeedsRefreshBeforeIngestion ==
    [][(event'.kind = "needs_refresh" /\ ~ingested) => call'.result]_vars

C29_FailedPopulationKeepsTable ==
    [][\A t \in RegistryThreads :
         (event'.kind = "populate_failed" /\ event'.arg = t)
           => registry'.models = fetch[t].before]_vars

(***************************************************************************)
(* C30.  A lookup that runs while another thread populates reads either    *)
(* the complete table from before that population or the complete new one, *)
(* never an empty or partly filled table; get_model_info returns the       *)
(* descriptor of a model it found.                                         *)
(***************************************************************************)
Populating(t) == fetch[t].at \in {"entry", "stamp"}

C30_LookupSeesWholeTable ==
    [][\A r \in RegistryThreads :
         /\ (/\ event'.kind \in LookupOps
             /\ event'.arg = r)
              => \A t \in RegistryThreads \ {r} :
                   Populating(t)
                     => registry.models
                          \in {fetch[t].before,
                               StoreEntries(EmptyTable, fetch[t].body.data)}
         /\ event'.arg = r => event'.kind # "KeyError"]_vars

InQueueSection(t) == held["_sync_lock"] = t \/ held["_async_lock"] = t

C33_OneQueueLock ==
    \A t, u \in Threads : InQueueSection(t) /\ InQueueSection(u) => t = u

(***************************************************************************)
(* C34.  Whenever can_proceed admits the request the worker has taken, the *)
(* worker invokes its callable in that tick; when the callable returns,    *)
(* total_processed grows by exactly one and the request is in no queue.    *)
(* (The claim also has the worker ingest the headers of the response; the  *)
(* workers drop the value the callable returns, see AsyncCallableReturns   *)
(* and SyncCallableReturns, which leave rl as it is.)                      *)
(***************************************************************************)
\* the step is the admission step of the worker task
AsyncAdmissionStep ==
    /\ apc \in {"sleep", "scan"}
    /\ spc' = spc
    /\ event'.kind \in {"pushback", "retry", "exhausted", "dispatch"}

\* the step is the admission step of the sync driver
SyncAdmissionStep == spc = "admit" /\ spc' # "admit"

C34_GoInvokesAndCounts ==
    [][/\ SyncAdmissionStep /\ CanProceed(rl, sreq.tokens_required, 1, 0)
          => event'.kind = "dispatch" /\ event'.id = sreq.id
       /\ AsyncAdmissionStep
          => LET r == Head(queues[PriorityOrder[FirstNonEmpty(queues, aidx)]])
             IN  CanProceed(rl, r.tokens_required, 1, 0)
                   => event'.kind = "dispatch" /\ event'.id = r.id
       /\ event'.kind = "processed"
          => /\ stats'.total_processed = stats.total_processed + 1
             /\ \A p \in PriorityValues : \A i \in 1..Len(queues'[p]) :
                   queues'[p][i].id # event'.id]_vars

(***************************************************************************)
(* C35.  When GroqClient.enqueue_request returns without raising, the      *)
(* request is at the tail of the queue of its priority, total_queued has   *)
(* grown by one and the value returned is the id of the request.           *)
(***************************************************************************)
C35_EnqueueRequestEnqueues ==
    [][(event'.kind = "enqueue_request" /\ event'.raised = NoError)
         => /\ stats'.total_queued = stats.total_queued + 1
            /\ \E p \in PriorityValues :
                 /\ queues'[p] # <<>>
                 /\ queues'[p][Len(queues'[p])].id = event'.id
                 /\ queues[p] = SubSeq(queues'[p], 1, Len(queues'[p]) - 1)
            /\ event'.arg # CoroutineObject]_vars

(***************************************************************************)
(* C37.  Request conservation.  While clear_queue is not called, every     *)
(* accepted request is in exactly one queue (once), or in flight in a      *)
(* worker, or counted as processed, or terminally failed: total_queued is  *)
(* the sum of the four numbers, also across stop_processing.  A failure is *)
(* terminal when it is not followed by a retry, so the terminal failures   *)
(* are total_failed - total_retries.                                       *)
(***************************************************************************)
InFlightCount ==
    (IF apc = "exec" THEN 1 ELSE 0) + (IF spc \in {"admit", "exec"} THEN 1 ELSE 0)

TerminalFailures == stats.total_failed - stats.total_retries

C37_Conservation ==
    /\ stats.total_queued
         = QueueTotal(queues) + InFlightCount + stats.total_processed
           + TerminalFailures
    /\ \A p, q \in PriorityValues :
         \A i \in 1..Len(queues[p]) : \A j \in 1..Len(queues[q]) :
            queues[p][i].id = queues[q][j].id => p = q /\ i = j

(***************************************************************************)
(* C40.  Progress.  While the worker keeps running, under fair scheduling, *)
(* with every pending reset deadline passing and every callable            *)
(* terminating, each accepted request eventually leaves the queue manager  *)
(* (processed, or failed for good): none stays queued forever.             *)
(***************************************************************************)
Pending(n) == \E r \in LiveRequests : r.id[2] = n

C40_Progress ==
    \A n \in 1..MaxRequests : Pending(n) ~> ~Pending(n)

(***************************************************************************)
(* C31.  generate sends the request to the transport only if the model is  *)
(* in the registry, is a chat model and, when its window is known, the     *)
(* counted tokens plus max_tokens do not exceed the window; a call whose   *)
(* registry check or token check finds otherwise is rejected with          *)
(* InvalidModel or with TokenLimitExceeded(requested = counted +           *)
(* max_tokens, max = window), and nothing is sent.                         *)
(***************************************************************************)
Exists(g) == g.model \in DOMAIN registry.models
IsChat(g) == registry.models[g.model].type = "chat"
Window(g) == registry.models[g.model].max_tokens
WithinWindow(g) ==
    Window(g) # None => g.counted + g.max_tokens <= Window(g)

\* the step is the table read of the lookup the call is at
ReadsTable(t) ==
    /\ gen[t].at \in LookupStages
    /\ event'.kind \in {"lookup", "rejected"}
    /\ event'.arg = t

C31_GenerateGate ==
    [][LET g == gen["r1"]
       IN  /\ event'.kind = "send" =>
                Exists(g) /\ IsChat(g) /\ WithinWindow(g)
           /\ ReadsTable("r1") /\ g.at = "supported" =>
                IF Exists(g) THEN event'.kind = "lookup"
                ELSE event'.kind = "rejected" /\ event'.raised = InvalidModel
           /\ ReadsTable("r1") /\ g.at = "type" =>
                IF Exists(g) /\ IsChat(g) THEN event'.kind = "lookup"
                ELSE event'.kind = "rejected" /\ event'.raised = InvalidModel
           /\ ReadsTable("r1") /\ g.at = "max_tokens" /\ Exists(g) =>
                IF WithinWindow(g) THEN event'.kind = "lookup"
                ELSE /\ event'.kind = "rejected"
                     /\ event'.raised
                          = TokenLimitExceeded(g.counted + g.max_tokens,
                                               Window(g))
           /\ event'.kind = "rejected" => g.at # "sent"]_vars

\* the token check has rejected the call that counts 90 tokens and declares
\* max_tokens 20 for the model whose window is 100
C31_Witness ==
    /\ event.kind = "rejected"
    /\ event.raised = TokenLimitExceeded(110, 100)
    /\ gen["r1"].at = "idle"

(***************************************************************************)
(* C36.  When the transport answers 2xx, generate and transcribe return    *)
(* the response whichever of the recognized headers it carries, none of    *)
(* them included, and the ingestion changes only the tracker fields whose  *)
(* header the response carries.                                            *)
(***************************************************************************)
WindowOf(field) ==
    CASE field \in {"request_limit", "request_remaining",
                    "request_reset_armed", "request_reset_in"} -> "requests"
      [] field \in {"token_limit", "token_remaining",
                    "token_reset_armed", "token_reset_in"} -> "tokens"
      [] OTHER -> "audio-seconds"

C36_ResponseReturned ==
    [][event'.kind = "response_2xx" =>
         /\ event'.raised = NoError
         /\ \E headers \in ResponseHeaderSets :
              /\ rl' = UpdateFromHeaders(rl, headers).rl
              /\ \A field \in DOMAIN rl :
                   rl'[field] # rl[field] =>
                     \E h \in DOMAIN headers :
                       h \in {"x-ratelimit-limit-" \o WindowOf(field),
                              "x-ratelimit-remaining-" \o WindowOf(field),
                              "x-ratelimit-reset-" \o WindowOf(field)}]_vars

(***************************************************************************)
(* C38.  A handler sends a request to the transport only in a state where  *)
(* the tracker admits it: when generate or transcribe calls the transport, *)
(* can_proceed for the amounts of that request is true, also after the     *)
(* handler has waited.                                                     *)
(***************************************************************************)
Admits(t) ==
    LET a == Amounts(gen[t])
    IN  CanProceed(rl, a[1], a[2], a[3])

C38_SendOnlyWhenAdmitted ==
    [][\A t \in RegistryThreads :
         event'.kind = "send" /\ event'.arg = t => Admits(t)]_vars

(***************************************************************************)
(* C39.  No over-admission.  For a requests window with a limit, between   *)
(* one ingestion of headers and the next, with no reset deadline passing,  *)
(* the requests admitted by can_proceed(requests=1) and sent are never     *)
(* more than the remaining requests the ingestion reported.                *)
(***************************************************************************)
AdmittedAndSent == {t \in RegistryThreads : gen[t].at = "sent" /\ gen[t].admitted}

C39_NoOverAdmission ==
    rl.request_limit > 0 => Cardinality(AdmittedAndSent) <= rl.request_remaining

====
